---- MODULE Spec2Model ----
(***************************************************************************)
(* Model of CppUtils-Network: the socket abstraction of Socket.cpp         *)
(* (NetworkingSubsystem, ASocket, TcpSocket, TcpServerSocket, UdpSocket)   *)
(* over an explicit model of the kernel's descriptor table.                *)
(***************************************************************************)
EXTENDS Integers, Sequences, FiniteSets, TLC

(***************************************************************************)
(* Bounds of the model.                                                    *)
(***************************************************************************)
NumThreads == 2      \* threads racing in initializeIfNotAlready
MaxCalls == 2        \* calls of initializeIfNotAlready per thread
MaxFd == 3           \* size of the kernel's descriptor table
MaxLen == 2          \* bytes an application writes into one connection
SndBuf == 1          \* bytes a connection holds in flight
MaxOps == 4          \* socket calls completed in one run of the lifecycle model
UdpQueue == 1        \* datagrams a UDP socket holds unread
BufLen == 3          \* bytes of the buffer the binary streams work over

(***************************************************************************)
(* Program constants.                                                      *)
(***************************************************************************)
INVALID_SOCK == -1
SUCCESS == 0
BACKLOG == 16
\* native error codes the classification functions look at
EAGAIN == 11
ETIMEDOUT == 110
WSAEWOULDBLOCK == 10035
WSAETIMEDOUT == 10060
\* any other native error (EBADF, ECONNREFUSED, ECONNRESET, ENOTCONN, ...)
EOTHER == 9

VARIABLES
    platform,       \* "posix" or "win": which #ifdef branch was compiled
    _initialized,   \* NetworkingSubsystem::_initialized
    mtx,            \* NetworkingSubsystem::mtx: 0 when free, else the owning thread
    tpc,            \* per thread: position inside initializeIfNotAlready
    tret,           \* per thread: what its last call returned, whether a
                    \* startup had already succeeded when it returned, which
                    \* method made the call and whether that method went on
                    \* to create a native socket
    ncalls,         \* per thread: calls started so far
    succeeded,      \* a platform startup call has returned success
    life,           \* per socket object: "none", "alive" or "dead" (destroyed)
    obj,            \* per socket object: _socket, _lastSystemError, _isBlocking
    fds,            \* the kernel's descriptor table
    errno,          \* per thread: what getLastError() returns
    driver,         \* per socket object: the thread that calls its methods
    call,           \* per socket object: the call in progress, if any
    last,           \* per thread: the call that completed last
    prev,           \* per thread: the call that completed before it
    nsent,          \* per socket object: bytes the application has handed to send
    got,            \* per socket object: bytes receive calls have returned
    acked,          \* per socket object: bytes of send calls that returned Success
    halted,         \* critical_error has stopped the process
    budget,         \* calls the run may still complete (-1: any number)
    endpoint,       \* an Endpoint: the version and bytes of its IPAddr, its port
    sockaddr,       \* a native sockaddr_storage: family, address bytes, port bytes
    buffer,         \* the bytes a BinaryOutputStream / BinaryInputStream works on
    ostream,        \* BinaryOutputStream: _curPos, as an offset into buffer
    istream,        \* BinaryInputStream: _curPos, as an offset into buffer, _failed
    result          \* what the last call of a utility function returned

\* the objects of the utility classes, which no socket operation touches
utilVars == <<endpoint, sockaddr, buffer, ostream, istream, result>>
\* what no socket operation changes
hostVars == <<platform, utilVars>>
netVars == <<hostVars, _initialized, succeeded>>
thrVars == <<mtx, tpc, tret, ncalls>>
sockVars == <<life, obj, fds, errno, driver, call, last, prev, nsent, got, acked,
             halted, budget>>
vars == <<netVars, thrVars, sockVars>>

Platforms == {"posix", "win"}

\* no utility object exists
NoResult == [op |-> "none"]
UtilIdle ==
    /\ endpoint = [version |-> 0, bytes |-> <<>>, port |-> 0]
    /\ sockaddr = [family |-> "AF_UNSPEC", addr |-> <<>>, port |-> <<0, 0>>]
    /\ buffer = <<>>
    /\ ostream = [_curPos |-> 0]
    /\ istream = [_curPos |-> 0, _failed |-> FALSE]
    /\ result = NoResult
Threads == 1..NumThreads

(***************************************************************************)
(* NetworkingSubsystem                                                     *)
(***************************************************************************)

\* _initialize(): WSAStartup may fail, the POSIX branch returns true.
_initialize == IF platform = "win" THEN BOOLEAN ELSE {TRUE}

\* The unsynchronised read of _initialized at the top of
\* initializeIfNotAlready races with the write under the mutex: it yields
\* the current value or the stale initial one.
RacyRead == {_initialized, FALSE}

NoRet == [val |-> "none", afterOk |-> FALSE, caller |-> "none", socket |-> FALSE]

\* the methods that call g_netSystem.initializeIfNotAlready()
Callers == {"connect", "serverOpen", "udpOpen"}

ThreadInit ==
    /\ mtx = 0
    /\ tpc = [t \in Threads |-> "idle"]
    /\ tret = [t \in Threads |-> NoRet]
    /\ ncalls = [t \in Threads |-> 0]

NetInit ==
    /\ platform \in Platforms
    /\ UtilIdle
    /\ _initialized = FALSE
    /\ succeeded = FALSE

\* a thread enters initializeIfNotAlready
InitCall(t) ==
    /\ tpc[t] = "idle"
    /\ ncalls[t] < MaxCalls
    /\ ncalls' = [ncalls EXCEPT ![t] = @ + 1]
    /\ tpc' = [tpc EXCEPT ![t] = "check"]
    /\ UNCHANGED <<netVars, mtx, tret, sockVars>>

\* if (_initialized) return true;
FastCheck(t) ==
    /\ tpc[t] = "check"
    /\ \E seen \in RacyRead :
        IF seen
        THEN /\ tpc' = [tpc EXCEPT ![t] = "caller"]
             /\ tret' = [tret EXCEPT ![t] = [NoRet EXCEPT !.val = "true",
                                                          !.afterOk = succeeded]]
        ELSE /\ tpc' = [tpc EXCEPT ![t] = "lock"]
             /\ UNCHANGED tret
    /\ UNCHANGED <<netVars, mtx, ncalls, sockVars>>

\* std::unique_lock< std::mutex > lock( mtx );
Lock(t) ==
    /\ tpc[t] = "lock"
    /\ mtx = 0
    /\ mtx' = t
    /\ tpc' = [tpc EXCEPT ![t] = "recheck"]
    /\ UNCHANGED <<netVars, tret, ncalls, sockVars>>

\* the mutant: the flag is not looked at again under the lock
RecheckSkipped(t) ==
    /\ tpc[t] = "recheck"
    /\ tpc' = [tpc EXCEPT ![t] = "startup"]
    /\ UNCHANGED <<netVars, mtx, tret, ncalls, sockVars>>

\* if (!_initialized), read under the lock
Recheck(t) ==
    /\ tpc[t] = "recheck"
    /\ tpc' = [tpc EXCEPT ![t] = IF ~_initialized THEN "startup" ELSE "ret"]
    /\ UNCHANGED <<netVars, mtx, tret, ncalls, sockVars>>

\* _initialized = _initialize();  the thread is inside the platform startup
\* call while it is at "startup"
Startup(t) ==
    /\ tpc[t] = "startup"
    /\ \E r \in _initialize :
        /\ _initialized' = r
        /\ succeeded' = (succeeded \/ r)
    /\ tpc' = [tpc EXCEPT ![t] = "ret"]
    /\ UNCHANGED <<hostVars, mtx, tret, ncalls, sockVars>>

\* return _initialized;  and the lock's destructor
InitReturn(t) ==
    /\ tpc[t] = "ret"
    /\ tret' = [tret EXCEPT ![t] = [NoRet EXCEPT
                                        !.val = IF _initialized THEN "true" ELSE "false",
                                        !.afterOk = succeeded]]
    /\ mtx' = 0
    /\ tpc' = [tpc EXCEPT ![t] = "caller"]
    /\ UNCHANGED <<netVars, ncalls, sockVars>>

\* the mutant: the caller does not look at the result
CallerIgnoresResult(t) ==
    /\ tpc[t] = "caller"
    /\ \E m \in Callers :
        tret' = [tret EXCEPT ![t] = [@ EXCEPT !.caller = m, !.socket = TRUE]]
    /\ tpc' = [tpc EXCEPT ![t] = "idle"]
    /\ UNCHANGED <<netVars, mtx, ncalls, sockVars>>

\* back in TcpSocket::connect, TcpServerSocket::open or UdpSocket::open:
\* if (!initialized) return NetworkingInitFailed; otherwise the method goes
\* on to ::socket
CallerContinues(t) ==
    /\ tpc[t] = "caller"
    /\ \E m \in Callers :
        tret' = [tret EXCEPT ![t] = [@ EXCEPT !.caller = m,
                                              !.socket = (tret[t].val = "true")]]
    /\ tpc' = [tpc EXCEPT ![t] = "idle"]
    /\ UNCHANGED <<netVars, mtx, ncalls, sockVars>>

(***************************************************************************)
(* The kernel: a table of descriptors.  A connection is a pair of          *)
(* descriptors naming each other as peer; bytes accepted by a native send  *)
(* are in flight towards the peer until the network delivers them into     *)
(* its receive queue.                                                      *)
(***************************************************************************)
Fds == 1..MaxFd
ObjIds == {"t1", "t2", "srv", "u1", "u2"}
TcpIds == {"t1", "t2"}
SrvIds == {"srv"}
UdpIds == {"u1", "u2"}
Ports == {0, 1}
SockThreads == {"main", "peer"}

FreeFd == [st |-> "free", nonblock |-> FALSE, rcvtimeo |-> FALSE, rx |-> <<>>,
           inflight |-> <<>>, fin |-> "no", rst |-> FALSE, peer |-> 0,
           backlog |-> <<>>, port |-> 0]

\* a descriptor the program may hold
IsOpenFd(F, h) == h \in Fds /\ F[h].st \notin {"free", "pending"}

FreeFds(F) == {f \in Fds : F[f].st = "free"}

\* ::socket() hands out the lowest unused descriptor
NewFd(F) == CHOOSE f \in FreeFds(F) : \A g \in FreeFds(F) : f <= g

\* the effect of a FIN sent to descriptor p
SendFin(F, p) ==
    IF p \in Fds /\ F[p].st \in {"conn", "pending"} /\ F[p].fin = "no"
    THEN [F EXCEPT ![p].fin = "flight"]
    ELSE F

\* ::shutdown( sock, SHUT_RDWR ) succeeds on a connection that has not been
\* reset and sends the FIN
CanShutdown(F, h) == IsOpenFd(F, h) /\ F[h].st = "conn" /\ ~F[h].rst

KShutdown(F, h) == SendFin(F, F[h].peer)

\* ::close( sock ): the descriptor is released; the peer of a connection
\* sees the end of the stream after the bytes still in flight; the
\* connections waiting in a listening socket's backlog are reset
KClose(F, h) ==
    LET p == F[h].peer
        F1 == IF F[h].st \in {"conn", "pending"} /\ p \in Fds
              THEN [SendFin(F, p) EXCEPT ![p].peer = 0]
              ELSE F
        waiting == {F[h].backlog[i] : i \in 1..Len(F[h].backlog)}
        F2 == [f \in Fds |->
                 IF f \in waiting THEN FreeFd
                 ELSE IF F1[f].peer \in waiting
                      THEN [F1[f] EXCEPT !.peer = 0, !.rst = TRUE]
                      ELSE F1[f]]
    IN [F2 EXCEPT ![h] = FreeFd]

(***************************************************************************)
(* Socket objects.                                                         *)
(***************************************************************************)
\* ASocket::ASocket()
DefaultSocket == [_socket |-> INVALID_SOCK, _lastSystemError |-> SUCCESS,
                  _isBlocking |-> TRUE]

\* the mutant: the handle given to the constructor is dropped
SocketFromNothing(sock) == DefaultSocket

\* ASocket::ASocket( socket_t sock )
SocketFrom(sock) == [_socket |-> sock, _lastSystemError |-> SUCCESS,
                     _isBlocking |-> TRUE]

\* the mutant: the handle is never found invalid
isConnectedAlways(o) == TRUE

\* the mutant: the handle is always found invalid
isConnectedNever(o) == FALSE

\* TcpSocket::isConnected, TcpSocket::isAccepted
isConnected(o) == obj[o]._socket # INVALID_SOCK

\* TcpServerSocket::isOpen, UdpSocket::isOpen
isOpen(o) == obj[o]._socket # INVALID_SOCK

\* getLastError() in the thread that drives object o
getLastError(o) == errno[driver[o]]

NoCall == [op |-> "none"]

\* an Endpoint the caller has not filled in, and no datagram
NoEndpoint == [version |-> 0, bytes |-> <<>>, port |-> 0]
NoDatagram == [data |-> <<>>]

\* the record kept of a completed call: its result, the native calls it
\* issued, whether the handle was valid when it began, the size asked for
\* and the output of a receive, the descriptors it created, and whether it
\* left the object and the kernel as they were
Done(op, ret, sys, valid) ==
    [op |-> op, ret |-> ret, sys |-> sys, valid |-> valid, n |-> 0,
     received |-> 0, buf |-> <<>>, fresh |-> {}, same |-> FALSE,
     obj |-> "none", other |-> "none", mode |-> "none", eof |-> FALSE,
     enable |-> FALSE, vec |-> <<>>, set |-> {}, endpoint |-> NoEndpoint,
     dgram |-> NoDatagram]

NoDone == Done("none", "none", <<>>, FALSE)

Sys(name, h, ok) == [name |-> name, h |-> h, ok |-> ok]

Brief(d) == [op |-> d.op, ret |-> d.ret, n |-> d.n, obj |-> d.obj]

\* object o may start a call: it is alive and its thread is not inside
\* another call
Callable(o) ==
    /\ ~halted
    /\ budget # 0
    /\ life[o] = "alive"
    /\ \A p \in ObjIds : driver[p] = driver[o] => call[p].op = "none"

\* the call on o returns
Return(o, d) ==
    /\ last' = [last EXCEPT ![driver[o]] = [d EXCEPT !.obj = o]]
    /\ prev' = [prev EXCEPT ![driver[o]] = Brief(last[driver[o]])]
    /\ budget' = IF budget > 0 THEN budget - 1 ELSE budget

SetErrno(o, e) == errno' = [errno EXCEPT ![driver[o]] = e]

SockInit ==
    /\ life = [o \in ObjIds |-> "alive"]
    /\ obj = [o \in ObjIds |-> DefaultSocket]
    /\ fds = [f \in Fds |-> FreeFd]
    /\ errno = [t \in SockThreads |-> SUCCESS]
    /\ driver = [o \in ObjIds |-> "main"]
    /\ call = [o \in ObjIds |-> NoCall]
    /\ last = [t \in SockThreads |-> NoDone]
    /\ prev = [t \in SockThreads |-> Brief(NoDone)]
    /\ nsent = [o \in ObjIds |-> 0]
    /\ got = [o \in ObjIds |-> <<>>]
    /\ acked = [o \in ObjIds |-> 0]
    /\ halted = FALSE
    /\ budget = MaxOps

(***************************************************************************)
(* TcpSocket: connection lifecycle                                         *)
(***************************************************************************)

\* g_netSystem.initializeIfNotAlready() run by a thread that has it to
\* itself: whether the subsystem is usable now, and the startup call made
InitOutcomes ==
    IF _initialized
    THEN {[ok |-> TRUE, sys |-> <<>>]}
    ELSE {[ok |-> r, sys |-> <<Sys("startup", 0, r)>>] : r \in _initialize}

\* the mutant: the flag is set whatever the startup call returned
ApplyInitSticky(i) ==
    /\ _initialized' = TRUE
    /\ succeeded' = (succeeded \/ (i.ok /\ i.sys # <<>>))
    /\ UNCHANGED hostVars

\* _initialized = _initialize(), or the flag as it was found
ApplyInit(i) ==
    /\ _initialized' = i.ok
    /\ succeeded' = (succeeded \/ (i.ok /\ i.sys # <<>>))
    /\ UNCHANGED hostVars

Listeners(F) == {l \in Fds : F[l].st = "listen" /\ Len(F[l].backlog) < BACKLOG}

\* the mutant: the half-created socket is not closed when ::connect fails
ConnectFailedLeak(o, s, F1, sys) ==
    /\ SetErrno(o, EOTHER)
    /\ fds' = F1
    /\ obj' = [obj EXCEPT ![o] = [@ EXCEPT !._socket = INVALID_SOCK,
                                           !._lastSystemError = EOTHER]]
    /\ Return(o, [Done("connect", "ConnectFailed",
                       sys \o <<Sys("connect", s, FALSE)>>, FALSE)
                   EXCEPT !.fresh = {s}])

\* TcpSocket::_connect, the branch where ::connect fails
ConnectFailedClose(o, s, F1, sys) ==
    /\ SetErrno(o, EOTHER)
    /\ fds' = KClose(F1, s)
    /\ obj' = [obj EXCEPT ![o] = [@ EXCEPT !._socket = INVALID_SOCK,
                                           !._lastSystemError = EOTHER]]
    /\ Return(o, [Done("connect", "ConnectFailed",
                       sys \o <<Sys("connect", s, FALSE), Sys("close", s, TRUE)>>, FALSE)
                   EXCEPT !.fresh = {s}])

\* TcpSocket::_connect
_connect(o, sys0) ==
    \/ \* ::socket fails: the descriptor table is full
       /\ FreeFds(fds) = {}
       /\ SetErrno(o, EOTHER)
       /\ obj' = [obj EXCEPT ![o] = [@ EXCEPT !._socket = INVALID_SOCK,
                                              !._lastSystemError = EOTHER]]
       /\ Return(o, Done("connect", "Other", sys0 \o <<Sys("socket", 0, FALSE)>>, FALSE))
       /\ UNCHANGED fds
    \/ /\ FreeFds(fds) # {}
       /\ LET s == NewFd(fds)
              F1 == [fds EXCEPT ![s].st = "sock"]
              sys == sys0 \o <<Sys("socket", 0, TRUE)>>
          IN \/ ConnectFailedClose(o, s, F1, sys)
             \/ \* ::connect succeeds: a listening socket takes the connection
                \* into its backlog
                /\ FreeFds(F1) # {}
                /\ \E l \in Listeners(F1) :
                    LET b == NewFd(F1) IN
                    /\ fds' = [F1 EXCEPT ![s] = [@ EXCEPT !.st = "conn", !.peer = b],
                                         ![b] = [FreeFd EXCEPT !.st = "pending", !.peer = s],
                                         ![l].backlog = Append(@, b)]
                    /\ obj' = [obj EXCEPT ![o] = [@ EXCEPT !._socket = s,
                                                           !._lastSystemError = getLastError(o)]]
                    /\ Return(o, [Done("connect", "Success",
                                       sys \o <<Sys("connect", s, TRUE)>>, FALSE)
                                   EXCEPT !.fresh = {s}])
                    /\ UNCHANGED errno

\* TcpSocket::connect( host, port ) when byHost, else
\* TcpSocket::connect( addr, port )
connect(o, byHost) ==
    IF isConnected(o)
    THEN /\ Return(o, [Done("connect", "AlreadyConnected", <<>>, TRUE) EXCEPT !.same = TRUE])
         /\ UNCHANGED <<netVars, obj, fds, errno>>
    ELSE \E i \in InitOutcomes :
         /\ ApplyInit(i)
         /\ IF ~i.ok
            THEN /\ obj' = [obj EXCEPT ![o]._lastSystemError = getLastError(o)]
                 /\ Return(o, Done("connect", "NetworkingInitFailed", i.sys, FALSE))
                 /\ UNCHANGED <<fds, errno>>
            ELSE \E resolved \in (IF byHost THEN BOOLEAN ELSE {TRUE}) :
                 IF ~resolved
                 THEN \E e \in {IF platform = "win" THEN EOTHER ELSE getLastError(o)} :
                      /\ SetErrno(o, e)
                      /\ obj' = [obj EXCEPT ![o]._lastSystemError = e]
                      /\ Return(o, Done("connect", "HostNotResolved",
                                        i.sys \o <<Sys("getaddrinfo", 0, FALSE)>>, FALSE))
                      /\ UNCHANGED fds
                 ELSE _connect(o, i.sys \o (IF byHost THEN <<Sys("getaddrinfo", 0, TRUE)>>
                                            ELSE <<>>))

TcpConnect(o, byHost) ==
    /\ Callable(o)
    /\ connect(o, byHost)
    /\ UNCHANGED <<thrVars, life, driver, call, nsent, got, acked, halted>>

\* TcpSocket::disconnect; op is the name the call is recorded under, as the
\* destructor runs the same code.  critical_error stops the process.
disconnect(o, op) ==
    LET h == obj[o]._socket IN
    IF ~isConnected(o)
    THEN /\ Return(o, [Done(op, "NotConnected", <<>>, FALSE) EXCEPT !.same = TRUE])
         /\ UNCHANGED <<obj, fds, errno, halted>>
    ELSE IF ~CanShutdown(fds, h)
         THEN /\ halted' = TRUE
              /\ SetErrno(o, EOTHER)
              /\ Return(o, Done(op, "Halted", <<Sys("shutdown", h, FALSE)>>, TRUE))
              /\ UNCHANGED <<obj, fds>>
         ELSE /\ fds' = KClose(KShutdown(fds, h), h)
              /\ obj' = [obj EXCEPT ![o] = [@ EXCEPT !._lastSystemError = getLastError(o),
                                                     !._socket = INVALID_SOCK]]
              /\ Return(o, Done(op, "Success",
                                <<Sys("shutdown", h, TRUE), Sys("close", h, TRUE)>>, TRUE))
              /\ UNCHANGED <<errno, halted>>

TcpDisconnect(o) ==
    /\ Callable(o)
    /\ disconnect(o, "disconnect")
    /\ UNCHANGED <<netVars, thrVars, life, driver, call, nsent, got, acked>>

\* TcpSocket::~TcpSocket
TcpDestroy(o) ==
    /\ Callable(o)
    /\ disconnect(o, "destroy")
    /\ life' = [life EXCEPT ![o] = "dead"]
    /\ UNCHANGED <<netVars, thrVars, driver, call, nsent, got, acked>>

(***************************************************************************)
(* ASocket: move, blocking mode                                            *)
(***************************************************************************)

\* the mutant: the source is reset to the state of ASocket::ASocket()
MovedFromDefault == DefaultSocket

\* ASocket::operator=( ASocket && ): what the source is reset to
MovedFrom == [_socket |-> INVALID_SOCK, _lastSystemError |-> 0, _isBlocking |-> FALSE]

\* the mutant: the source keeps the handle it gave away
MoveIntoCopy(dst, src) ==
    /\ obj' = [obj EXCEPT ![dst] = obj[src]]
    /\ Return(dst, [Done("move", "void", <<>>, obj[src]._socket # INVALID_SOCK)
                     EXCEPT !.other = src])

\* ASocket::operator=( ASocket && other ), with dst as *this
MoveInto(dst, src) ==
    /\ obj' = [obj EXCEPT ![dst] = obj[src], ![src] = MovedFrom]
    /\ Return(dst, [Done("move", "void", <<>>, obj[src]._socket # INVALID_SOCK)
                     EXCEPT !.other = src])

SameKind(a, b) ==
    \/ a \in TcpIds /\ b \in TcpIds
    \/ a \in SrvIds /\ b \in SrvIds
    \/ a \in UdpIds /\ b \in UdpIds

\* TcpSocket::operator=( TcpSocket && ) and its siblings; an object may be
\* assigned to itself, and is then both written and reset
MoveAssign(dst, src) ==
    /\ SameKind(dst, src)
    /\ Callable(dst)
    /\ Callable(src)
    /\ driver[dst] = driver[src]
    /\ MoveInto(dst, src)
    /\ UNCHANGED <<netVars, thrVars, life, fds, errno, driver, call, nsent, got, acked, halted>>

\* TcpSocket::TcpSocket( TcpSocket && ) and its siblings: the base is
\* default-constructed, then assigned
MoveConstruct(dst, src) ==
    /\ dst # src
    /\ SameKind(dst, src)
    /\ ~halted
    /\ life[dst] = "none"
    /\ Callable(src)
    /\ driver[dst] = driver[src]
    /\ MoveInto(dst, src)
    /\ life' = [life EXCEPT ![dst] = "alive"]
    /\ UNCHANGED <<netVars, thrVars, fds, errno, driver, call, nsent, got, acked, halted>>

\* _setBlockingMode( sock, enable ): fcntl / ioctlsocket fail on a
\* descriptor that is not open
SetBlockingOutcomes(h) == {IsOpenFd(fds, h)}

\* the mutant: the cached flag is assigned whatever the native call reports
CachedModeAlways(o, success, enable) == enable

\* if (success) _isBlocking = enable
CachedMode(o, success, enable) == IF success THEN enable ELSE obj[o]._isBlocking

\* ASocket::setBlockingMode
setBlockingMode(o, enable) ==
    LET h == obj[o]._socket IN
    \E success \in SetBlockingOutcomes(h) :
        IF success
        THEN /\ fds' = [fds EXCEPT ![h].nonblock = ~enable]
             /\ obj' = [obj EXCEPT ![o]._isBlocking = CachedMode(o, success, enable)]
             /\ Return(o, [Done("setBlockingMode", "true", <<Sys("fcntl", h, TRUE)>>, TRUE)
                            EXCEPT !.enable = enable])
             /\ UNCHANGED errno
        ELSE /\ SetErrno(o, EOTHER)
             /\ obj' = [obj EXCEPT ![o] = [@ EXCEPT !._isBlocking = CachedMode(o, success, enable),
                                                    !._lastSystemError = EOTHER]]
             /\ Return(o, [Done("setBlockingMode", "false", <<Sys("fcntl", h, FALSE)>>,
                                h # INVALID_SOCK)
                            EXCEPT !.enable = enable])
             /\ UNCHANGED fds

SetBlockingMode(o, enable) ==
    /\ Callable(o)
    /\ setBlockingMode(o, enable)
    /\ UNCHANGED <<netVars, thrVars, life, driver, call, nsent, got, acked, halted>>

\* TcpSocket::setTimeout: SO_RCVTIMEO is set (a zero duration clears it)
SetTimeout(o, on) ==
    LET h == obj[o]._socket IN
    /\ Callable(o)
    /\ IF IsOpenFd(fds, h)
       THEN /\ fds' = [fds EXCEPT ![h].rcvtimeo = on]
            /\ obj' = [obj EXCEPT ![o]._lastSystemError = getLastError(o)]
            /\ Return(o, Done("setTimeout", "true", <<Sys("setsockopt", h, TRUE)>>, TRUE))
            /\ UNCHANGED errno
       ELSE /\ SetErrno(o, EOTHER)
            /\ obj' = [obj EXCEPT ![o]._lastSystemError = EOTHER]
            /\ Return(o, Done("setTimeout", "false", <<Sys("setsockopt", h, FALSE)>>,
                              h # INVALID_SOCK))
            /\ UNCHANGED fds
    /\ UNCHANGED <<netVars, thrVars, life, driver, call, nsent, got, acked, halted>>

(***************************************************************************)
(* TcpServerSocket                                                         *)
(***************************************************************************)
PortInUse(F, st, port) == \E f \in Fds : F[f].st = st /\ F[f].port = port

\* the mutant: the socket whose bind or listen failed is not closed
OpenFailedLeak(F, s) == F

\* _closeSocket( _socket ) after a failed bind or listen
OpenFailedClose(F, s) == KClose(F, s)

\* the tail shared by both open methods: the socket exists, bind (and for
\* a server listen) follow.  st is "listen" or "udp".
BindAndListen(o, st, port, sys0) ==
    LET s == NewFd(fds)
        F1 == [fds EXCEPT ![s].st = "sock"]
        sys == sys0 \o <<Sys("socket", 0, TRUE)>>
        needBind == st = "listen" \/ port # 0
    IN
    \/ \* ::bind fails
       /\ needBind
       /\ SetErrno(o, EOTHER)
       /\ fds' = OpenFailedClose(F1, s)
       /\ obj' = [obj EXCEPT ![o] = [@ EXCEPT !._socket = INVALID_SOCK,
                                              !._lastSystemError = EOTHER]]
       /\ Return(o, [Done("open", "BindFailed",
                          sys \o <<Sys("bind", s, FALSE), Sys("close", s, TRUE)>>, FALSE)
                      EXCEPT !.fresh = {s}])
    \/ \* ::listen fails
       /\ st = "listen"
       /\ ~PortInUse(fds, st, port)
       /\ SetErrno(o, EOTHER)
       /\ fds' = OpenFailedClose(F1, s)
       /\ obj' = [obj EXCEPT ![o] = [@ EXCEPT !._socket = INVALID_SOCK,
                                              !._lastSystemError = EOTHER]]
       /\ Return(o, [Done("open", "ListenFailed",
                          sys \o <<Sys("bind", s, TRUE), Sys("listen", s, FALSE),
                                   Sys("close", s, TRUE)>>, FALSE)
                      EXCEPT !.fresh = {s}])
    \/ /\ needBind => ~PortInUse(fds, st, port)
       /\ fds' = [F1 EXCEPT ![s].st = st, ![s].port = port]
       /\ obj' = [obj EXCEPT ![o] = [@ EXCEPT !._socket = s,
                                              !._lastSystemError = getLastError(o)]]
       /\ Return(o, [Done("open", "Success",
                          sys \o (IF needBind THEN <<Sys("bind", s, TRUE)>> ELSE <<>>)
                              \o (IF st = "listen" THEN <<Sys("listen", s, TRUE)>> ELSE <<>>),
                          FALSE)
                      EXCEPT !.fresh = {s}])
       /\ UNCHANGED errno

\* TcpServerSocket::open and UdpSocket::open
open(o, st, port) ==
    IF obj[o]._socket # INVALID_SOCK
    THEN /\ Return(o, [Done("open", "AlreadyOpen", <<>>, TRUE) EXCEPT !.same = TRUE])
         /\ UNCHANGED <<netVars, obj, fds, errno>>
    ELSE \E i \in InitOutcomes :
         /\ ApplyInit(i)
         /\ IF ~i.ok
            THEN /\ obj' = [obj EXCEPT ![o]._lastSystemError = getLastError(o)]
                 /\ Return(o, Done("open", "NetworkingInitFailed", i.sys, FALSE))
                 /\ UNCHANGED <<fds, errno>>
            ELSE \/ \* ::socket fails: the descriptor table is full
                    /\ FreeFds(fds) = {}
                    /\ SetErrno(o, EOTHER)
                    /\ obj' = [obj EXCEPT ![o] = [@ EXCEPT !._socket = INVALID_SOCK,
                                                           !._lastSystemError = EOTHER]]
                    /\ Return(o, Done("open", "Other",
                                      i.sys \o <<Sys("socket", 0, FALSE)>>, FALSE))
                    /\ UNCHANGED fds
                 \/ /\ FreeFds(fds) # {}
                    /\ BindAndListen(o, st, port, i.sys)

ServerOpen(o, port) ==
    /\ Callable(o)
    /\ open(o, "listen", port)
    /\ UNCHANGED <<thrVars, life, driver, call, nsent, got, acked, halted>>

\* TcpServerSocket::close; op as for disconnect
serverClose(o, op) ==
    LET h == obj[o]._socket IN
    IF ~isOpen(o)
    THEN /\ Return(o, [Done(op, "NotOpen", <<>>, FALSE) EXCEPT !.same = TRUE])
         /\ UNCHANGED <<obj, fds, errno, halted>>
    ELSE IF ~IsOpenFd(fds, h)
         THEN /\ halted' = TRUE
              /\ SetErrno(o, EOTHER)
              /\ Return(o, Done(op, "Halted", <<Sys("close", h, FALSE)>>, TRUE))
              /\ UNCHANGED <<obj, fds>>
         ELSE /\ fds' = KClose(fds, h)
              /\ obj' = [obj EXCEPT ![o] = [@ EXCEPT !._lastSystemError = getLastError(o),
                                                     !._socket = INVALID_SOCK]]
              /\ Return(o, Done(op, "Success", <<Sys("close", h, TRUE)>>, TRUE))
              /\ UNCHANGED <<errno, halted>>

ServerClose(o) ==
    /\ Callable(o)
    /\ serverClose(o, "close")
    /\ UNCHANGED <<netVars, thrVars, life, driver, call, nsent, got, acked>>

\* TcpServerSocket::~TcpServerSocket
ServerDestroy(o) ==
    /\ Callable(o)
    /\ serverClose(o, "destroy")
    /\ life' = [life EXCEPT ![o] = "dead"]
    /\ UNCHANGED <<netVars, thrVars, driver, call, nsent, got, acked>>

\* TcpServerSocket::accept, its result constructing the TcpSocket dst.
\* A blocking ::accept with an empty backlog does not return.
ServerAccept(o, dst) ==
    LET h == obj[o]._socket IN
    /\ Callable(o)
    /\ life[dst] = "none"
    /\ life' = [life EXCEPT ![dst] = "alive"]
    /\ IF ~isOpen(o)
       THEN /\ obj' = [obj EXCEPT ![dst] = DefaultSocket]
            /\ Return(o, [Done("accept", "Unaccepted", <<>>, FALSE) EXCEPT !.same = TRUE])
            /\ UNCHANGED <<fds, errno>>
       ELSE \/ \* ::accept fails
               /\ ~IsOpenFd(fds, h) \/ fds[h].backlog = <<>>
               /\ IsOpenFd(fds, h) => fds[h].nonblock
               /\ \E e \in {IF IsOpenFd(fds, h)
                            THEN (IF platform = "posix" THEN EAGAIN ELSE WSAEWOULDBLOCK)
                            ELSE EOTHER} :
                   /\ SetErrno(o, e)
                   /\ obj' = [obj EXCEPT ![o]._lastSystemError = e, ![dst] = DefaultSocket]
               /\ Return(o, Done("accept", "Unaccepted", <<Sys("accept", h, FALSE)>>, TRUE))
               /\ UNCHANGED fds
            \/ /\ IsOpenFd(fds, h)
               /\ fds[h].backlog # <<>>
               /\ LET b == Head(fds[h].backlog) IN
                  /\ fds' = [fds EXCEPT ![h].backlog = Tail(@), ![b].st = "conn"]
                  /\ obj' = [obj EXCEPT ![o]._lastSystemError = getLastError(o),
                                        ![dst] = SocketFrom(b)]
                  /\ Return(o, [Done("accept", "Accepted", <<Sys("accept", h, TRUE)>>, TRUE)
                                 EXCEPT !.fresh = {b}])
               /\ UNCHANGED errno
    /\ UNCHANGED <<netVars, thrVars, driver, call, nsent, got, acked, halted>>

(***************************************************************************)
(* Classification of native errors                                         *)
(***************************************************************************)
\* _isTimeout
_isTimeout(errorCode) ==
    IF platform = "win"
    THEN errorCode = WSAETIMEDOUT
    ELSE errorCode = EAGAIN \/ errorCode = ETIMEDOUT

\* _isWouldBlock
_isWouldBlock(errorCode) ==
    IF platform = "win"
    THEN errorCode = WSAEWOULDBLOCK
    ELSE errorCode = EAGAIN

\* the mutant: the timeout is tested for before the would-block error
RecvErrorTimeoutFirst(o, e) ==
    IF _isTimeout(e) THEN "Timeout"
    ELSE IF ~obj[o]._isBlocking /\ _isWouldBlock(e) THEN "WouldBlock"
    ELSE "Other"

\* the chain of else-ifs after a negative native receive
RecvError(o, e) ==
    IF ~obj[o]._isBlocking /\ _isWouldBlock(e) THEN "WouldBlock"
    ELSE IF _isTimeout(e) THEN "Timeout"
    ELSE "Other"

\* what a native receive reports on descriptor h when nothing can be
\* returned yet: the would-block error of a non-blocking descriptor, the
\* expiry of SO_RCVTIMEO, or nothing (0: the call keeps waiting)
NoDataErrno(F, h) ==
    IF F[h].nonblock THEN (IF platform = "win" THEN WSAEWOULDBLOCK ELSE EAGAIN)
    ELSE IF F[h].rcvtimeo THEN (IF platform = "win" THEN WSAETIMEDOUT ELSE EAGAIN)
    ELSE 0

(***************************************************************************)
(* UdpSocket                                                               *)
(***************************************************************************)
UdpOpen(o, port) ==
    /\ Callable(o)
    /\ open(o, "udp", port)
    /\ UNCHANGED <<thrVars, life, driver, call, nsent, got, acked, halted>>

\* UdpSocket::close: ::shutdown on a datagram socket may report that it is
\* not connected
UdpClose(o) ==
    LET h == obj[o]._socket IN
    /\ Callable(o)
    /\ IF ~isOpen(o)
       THEN /\ Return(o, [Done("close", "NotOpen", <<>>, FALSE) EXCEPT !.same = TRUE])
            /\ UNCHANGED <<obj, fds, errno, halted>>
       ELSE \E shut \in BOOLEAN :
            IF ~shut \/ ~IsOpenFd(fds, h)
            THEN /\ halted' = TRUE
                 /\ SetErrno(o, EOTHER)
                 /\ Return(o, Done("close", "Halted", <<Sys("shutdown", h, FALSE)>>, TRUE))
                 /\ UNCHANGED <<obj, fds>>
            ELSE /\ fds' = KClose(fds, h)
                 /\ obj' = [obj EXCEPT ![o] = [@ EXCEPT !._lastSystemError = getLastError(o),
                                                        !._socket = INVALID_SOCK]]
                 /\ Return(o, Done("close", "Success",
                                   <<Sys("shutdown", h, TRUE), Sys("close", h, TRUE)>>, TRUE))
                 /\ UNCHANGED <<errno, halted>>
    /\ UNCHANGED <<netVars, thrVars, life, driver, call, nsent, got, acked>>

\* UdpSocket::~UdpSocket has an empty body, and so has ASocket::~ASocket
UdpDestroy(o) ==
    /\ Callable(o)
    /\ life' = [life EXCEPT ![o] = "dead"]
    /\ Return(o, Done("destroy", "void", <<>>, obj[o]._socket # INVALID_SOCK))
    /\ UNCHANGED <<netVars, thrVars, obj, fds, errno, driver, call, nsent, got, acked, halted>>

Bytes == 0..255

\* the mutant: the port is stored low byte first
HtonsLowFirst(port) == <<port % 256, port \div 256>>

\* htons: the two bytes in memory of the 16-bit value in network byte order
Htons(port) == <<port \div 256, port % 256>>

\* the mutant: the port is read low byte first
NtohsLowFirst(mem) == mem[1] + mem[2] * 256

\* ntohs: the value of two bytes in memory holding it in network byte order
Ntohs(mem) == mem[1] * 256 + mem[2]

\* impl::fastCopy4 and impl::fastCopy16
fastCopy4(src) == [i \in 1..4 |-> src[i]]
fastCopy16(src) == [i \in 1..16 |-> src[i]]

\* endpointToSockaddr for an endpoint of IP version 4 or 6
endpointToSockaddr(ep) ==
    IF ep.version = 4
    THEN [family |-> "AF_INET", addr |-> fastCopy4(ep.bytes), port |-> Htons(ep.port)]
    ELSE [family |-> "AF_INET6", addr |-> fastCopy16(ep.bytes), port |-> Htons(ep.port)]

\* sockaddrToEndpoint( saddr, ep ): the value returned and the endpoint after
sockaddrToEndpoint(saddr, ep) ==
    IF saddr.family = "AF_INET"
    THEN [ok |-> TRUE,
          ep |-> [version |-> 4, bytes |-> fastCopy4(saddr.addr), port |-> Ntohs(saddr.port)]]
    ELSE IF saddr.family = "AF_INET6"
    THEN [ok |-> TRUE,
          ep |-> [version |-> 6, bytes |-> fastCopy16(saddr.addr), port |-> Ntohs(saddr.port)]]
    ELSE [ok |-> FALSE, ep |-> ep]

Payload(len) == [k \in 1..len |-> k]

Loopback == <<127, 0, 0, 1>>
LoopbackEndpoint(port) == [version |-> 4, bytes |-> Loopback, port |-> port]

\* ports the kernel picks from for a socket that sends before it was bound
EphemeralPorts == {49152, 65535}

\* the kernel's own reading and writing of the port of a sockaddr_in
KPort(mem) == mem[1] * 256 + mem[2]
KPortBytes(port) == <<port \div 256, port % 256>>

\* the ports h may be bound to once it has sent: its own, or one the kernel
\* picks if it was unbound
AutoBind(F, h) ==
    IF F[h].port # 0 THEN {F[h].port}
    ELSE {p \in EphemeralPorts : ~PortInUse(F, "udp", p)}

\* the datagram reaches the socket bound to the address, if there is one with
\* room in its queue
DeliverDatagram(F, saddr, d) ==
    [f \in Fds |->
        IF /\ F[f].st = "udp" /\ saddr.addr = Loopback
           /\ F[f].port = KPort(saddr.port) /\ F[f].port # 0
           /\ Len(F[f].rx) < UdpQueue
        THEN [F[f] EXCEPT !.rx = Append(@, d)]
        ELSE F[f]]

\* UdpSocket::sendTo of the len bytes 1, 2, ..., len to endpoint ep.  The
\* datagram carries the address the kernel has the sender bound to.
UdpSendTo(o, ep, len) ==
    LET h == obj[o]._socket
        saddr == endpointToSockaddr(ep) IN
    /\ Callable(o)
    /\ \/ \* ::sendto fails
          /\ SetErrno(o, EOTHER)
          /\ obj' = [obj EXCEPT ![o]._lastSystemError = EOTHER]
          /\ Return(o, [Done("sendTo", "SendFailed", <<Sys("sendto", h, FALSE)>>,
                             h # INVALID_SOCK)
                         EXCEPT !.n = len, !.endpoint = ep])
          /\ UNCHANGED fds
       \/ /\ IsOpenFd(fds, h)
          /\ saddr.family = "AF_INET"
          /\ \E p \in AutoBind(fds, h) :
                LET F1 == [fds EXCEPT ![h].port = p]
                    d == [data |-> Payload(len),
                          from |-> [family |-> "AF_INET", addr |-> Loopback,
                                    port |-> KPortBytes(F1[h].port)],
                          bound |-> F1[h].port, to |-> ep] IN
                /\ fds' = DeliverDatagram(F1, saddr, d)
                /\ Return(o, [Done("sendTo", "Success", <<Sys("sendto", h, TRUE)>>, TRUE)
                               EXCEPT !.n = len, !.endpoint = ep, !.dgram = d])
          /\ obj' = [obj EXCEPT ![o]._lastSystemError = getLastError(o)]
          /\ UNCHANGED errno
    /\ UNCHANGED <<netVars, thrVars, life, driver, call, nsent, got, acked, halted>>

Min(a, b) == IF a < b THEN a ELSE b

\* what ::recvfrom does with a datagram longer than the buffer of n bytes:
\* it cuts it to n bytes, and on Windows it fails with WSAEMSGSIZE as well
TooLong(n, d) == n < Len(d.data)

\* UdpSocket::recvFrom into a buffer of n bytes.  A failed call leaves
\* totalReceived (recorded as -1) and the endpoint as they were.
UdpRecvFrom(o, n) ==
    LET h == obj[o]._socket IN
    /\ Callable(o)
    /\ IF IsOpenFd(fds, h) /\ fds[h].rx # <<>>
       THEN LET d == Head(fds[h].rx)
                ep == sockaddrToEndpoint(d.from, NoEndpoint) IN
            /\ fds' = [fds EXCEPT ![h].rx = Tail(@)]
            /\ IF platform = "win" /\ TooLong(n, d)
               THEN /\ SetErrno(o, EOTHER)
                    /\ obj' = [obj EXCEPT ![o]._lastSystemError = EOTHER]
                    /\ Return(o, [Done("recvFrom", RecvError(o, EOTHER),
                                       <<Sys("recvfrom", h, FALSE)>>, TRUE)
                                   EXCEPT !.n = n, !.received = -1, !.dgram = d,
                                          !.buf = SubSeq(d.data, 1, n)])
               ELSE /\ ep.ok
                    /\ obj' = [obj EXCEPT ![o]._lastSystemError = getLastError(o)]
                    /\ Return(o, [Done("recvFrom", "Success", <<Sys("recvfrom", h, TRUE)>>, TRUE)
                                   EXCEPT !.n = n, !.received = Min(n, Len(d.data)),
                                          !.buf = SubSeq(d.data, 1, Min(n, Len(d.data))),
                                          !.endpoint = ep.ep, !.dgram = d])
                    /\ UNCHANGED errno
       ELSE \E e \in {IF IsOpenFd(fds, h) THEN NoDataErrno(fds, h) ELSE EOTHER} :
            /\ e # 0
            /\ SetErrno(o, e)
            /\ obj' = [obj EXCEPT ![o]._lastSystemError = e]
            /\ Return(o, [Done("recvFrom", RecvError(o, e), <<Sys("recvfrom", h, FALSE)>>,
                               h # INVALID_SOCK)
                           EXCEPT !.n = n, !.received = -1])
            /\ UNCHANGED fds
    /\ UNCHANGED <<netVars, thrVars, life, driver, call, nsent, got, acked, halted>>

(***************************************************************************)
(* TcpSocket: send and receive.  Each native call is one step, so that the *)
(* network and the peer act between the calls of one loop.                 *)
(***************************************************************************)

\* TcpSocket::send( buffer ): the check on entry.  The application hands
\* over the next len bytes of its stream 1, 2, 3, ...
TcpSend(o, len) ==
    /\ Callable(o)
    /\ nsent[o] + len <= MaxLen
    /\ IF ~isConnected(o)
       THEN /\ Return(o, [Done("send", "NotConnected", <<>>, FALSE)
                           EXCEPT !.n = len, !.same = TRUE])
            /\ UNCHANGED <<call, nsent>>
       ELSE /\ call' = [call EXCEPT ![o] =
                          [op |-> "send", n |-> len, begin |-> 0, rem |-> len,
                           buf |-> [k \in 1..len |-> nsent[o] + k], sys |-> <<>>,
                           taken |-> <<>>]]
            /\ nsent' = [nsent EXCEPT ![o] = @ + len]
            /\ UNCHANGED <<last, prev, budget>>
    /\ UNCHANGED <<netVars, thrVars, life, obj, fds, errno, driver, got, acked, halted>>

\* room for bytes in flight towards descriptor p
Room(F, p) == SndBuf - Len(F[p].inflight)

\* the mutant: sendBegin is not advanced
SendWindowStuck(c, k) == SubSeq(c.buf, 1, k)

\* the k bytes a native send takes from the cursor sendBegin
SendWindow(c, k) == SubSeq(c.buf, c.begin + 1, c.begin + k)

\* the mutant: sendBegin stays where it is
AdvanceSizeOnly(c, k) == [c EXCEPT !.rem = @ - k]

\* sendBegin += sent; sendSize -= sent
Advance(c, k) == [c EXCEPT !.begin = @ + k, !.rem = @ - k]

\* one turn of the loop in TcpSocket::send
TcpSendStep(o) ==
    LET c == call[o]
        h == obj[o]._socket
        p == IF IsOpenFd(fds, h) THEN fds[h].peer ELSE 0
        broken == ~IsOpenFd(fds, h) \/ fds[h].st # "conn" \/ fds[h].rst \/ p = 0
    IN
    /\ ~halted
    /\ c.op = "send"
    /\ \/ \* ::send reports an error
          /\ IF broken THEN TRUE ELSE fds[h].nonblock /\ Room(fds, p) = 0
          /\ SetErrno(o, EOTHER)
          /\ obj' = [obj EXCEPT ![o]._lastSystemError = EOTHER]
          /\ Return(o, [Done("send", "SendFailed",
                             c.sys \o <<Sys("send", h, FALSE)>>, TRUE)
                         EXCEPT !.n = c.n, !.buf = c.taken])
          /\ call' = [call EXCEPT ![o] = NoCall]
          /\ UNCHANGED <<fds, acked>>
       \/ \* the peer is gone: ::send may still take bytes, which are dropped
          /\ IsOpenFd(fds, h) /\ fds[h].st = "conn" /\ ~fds[h].rst /\ p = 0
          /\ IF c.rem - 1 > 0
             THEN /\ call' = [call EXCEPT ![o] = [Advance(c, 1) EXCEPT
                                  !.taken = c.taken \o SendWindow(c, 1),
                                  !.sys = Append(c.sys, Sys("send", h, TRUE))]]
                  /\ UNCHANGED <<obj, last, prev, budget, acked>>
             ELSE /\ obj' = [obj EXCEPT ![o]._lastSystemError = getLastError(o)]
                  /\ acked' = [acked EXCEPT ![o] = @ + c.n]
                  /\ Return(o, [Done("send", "Success",
                                     Append(c.sys, Sys("send", h, TRUE)), TRUE)
                                 EXCEPT !.n = c.n, !.buf = c.taken \o SendWindow(c, 1)])
                  /\ call' = [call EXCEPT ![o] = NoCall]
          /\ UNCHANGED <<fds, errno>>
       \/ \* ::send takes k bytes; it waits while there is no room
          /\ ~broken
          /\ \E k \in 1..Min(c.rem, Room(fds, p)) :
              /\ fds' = [fds EXCEPT ![p].inflight = @ \o SendWindow(c, k)]
              /\ IF c.rem - k > 0
                 THEN /\ call' = [call EXCEPT ![o] = [Advance(c, k) EXCEPT
                                      !.taken = c.taken \o SendWindow(c, k),
                                      !.sys = Append(c.sys, Sys("send", h, TRUE))]]
                      /\ UNCHANGED <<obj, last, prev, budget, acked>>
                 ELSE /\ obj' = [obj EXCEPT ![o]._lastSystemError = getLastError(o)]
                      /\ acked' = [acked EXCEPT ![o] = @ + c.n]
                      /\ Return(o, [Done("send", "Success",
                                         Append(c.sys, Sys("send", h, TRUE)), TRUE)
                                     EXCEPT !.n = c.n, !.buf = c.taken \o SendWindow(c, k)])
                      /\ call' = [call EXCEPT ![o] = NoCall]
          /\ UNCHANGED errno
    /\ UNCHANGED <<netVars, thrVars, life, driver, nsent, got, halted>>

\* how a native receive on descriptor h behaves while nothing has arrived
WaitMode(F, h) ==
    IF ~IsOpenFd(F, h) THEN "none"
    ELSE IF F[h].nonblock THEN "nonblock"
    ELSE IF F[h].rcvtimeo THEN "timeout"
    ELSE "wait"

\* the peer's FIN, and with it every byte sent before, has arrived at h
EndArrived(F, h) == IsOpenFd(F, h) /\ F[h].fin = "arrived"

\* TcpSocket::receive( buffer, totalReceived ): the check on entry.  The
\* buffer of n bytes starts out holding zeros, which no application sends.
TcpReceive(o, n) ==
    /\ Callable(o)
    /\ IF ~isConnected(o)
       THEN /\ Return(o, [Done("receive", "NotConnected", <<>>, FALSE)
                           EXCEPT !.n = n, !.received = -1, !.same = TRUE])
            /\ UNCHANGED call
       ELSE /\ call' = [call EXCEPT ![o] =
                          [op |-> "receive", n |-> n, rem |-> n,
                           buf |-> [k \in 1..n |-> 0], sys |-> <<>>,
                           mode |-> WaitMode(fds, obj[o]._socket),
                           eof |-> EndArrived(fds, obj[o]._socket),
                           vector |-> FALSE]]
            /\ UNCHANGED <<last, prev, budget>>
    /\ UNCHANGED <<netVars, thrVars, life, obj, fds, errno, driver, nsent, got, acked, halted>>

\* the values the local 'size_t received' of receive( vector, size ) can hold
\* when nothing has been assigned to it
Uninitialized(n) == 0..(n + 1)

\* TcpSocket::receive( vector, size ): the vector is resized to size, the
\* span overload is called with the local 'received' as its output, and the
\* vector is resized to that local.  When the socket is not connected the
\* span overload returns before it assigns the output.
TcpReceiveVector(o, n) ==
    /\ Callable(o)
    /\ IF ~isConnected(o)
       THEN /\ \E received \in Uninitialized(n) :
                 Return(o, [Done("receiveVector", "NotConnected", <<>>, FALSE)
                             EXCEPT !.n = n, !.received = 0,
                                    !.buf = [k \in 1..received |-> 0], !.same = TRUE])
            /\ UNCHANGED call
       ELSE /\ call' = [call EXCEPT ![o] =
                          [op |-> "receive", n |-> n, rem |-> n,
                           buf |-> [k \in 1..n |-> 0], sys |-> <<>>,
                           mode |-> WaitMode(fds, obj[o]._socket),
                           eof |-> EndArrived(fds, obj[o]._socket),
                           vector |-> TRUE]]
            /\ UNCHANGED <<last, prev, budget>>
    /\ UNCHANGED <<netVars, thrVars, life, obj, fds, errno, driver, nsent, got, acked, halted>>

\* the mutant: recvBegin is not advanced
StoreAtStart(c, bytes) ==
    [k \in 1..c.n |-> IF k <= Len(bytes) THEN bytes[k] ELSE c.buf[k]]

\* the buffer after a native receive has stored bytes at the cursor recvBegin
StoreAtCursor(c, bytes) ==
    [k \in 1..c.n |->
        IF k > c.n - c.rem /\ k <= (c.n - c.rem) + Len(bytes)
        THEN bytes[k - (c.n - c.rem)]
        ELSE c.buf[k]]

\* the mutant: totalReceived is what the call failed to receive
TotalFailed(c) == c.rem

\* totalReceived = buffer.size() - recvSize
TotalReceived(c) == c.n - c.rem

\* the receive call on o returns ret with the buffer and the count it has
ReceiveReturn(o, c, ret, sys, count) ==
    /\ Return(o, [Done(IF c.vector THEN "receiveVector" ELSE "receive", ret, sys, TRUE)
                   EXCEPT !.n = c.n, !.received = count,
                          !.buf = IF c.vector THEN SubSeq(c.buf, 1, count) ELSE c.buf,
                          !.mode = c.mode, !.eof = c.eof])
    /\ got' = [got EXCEPT ![o] = @ \o SubSeq(c.buf, 1, count)]
    /\ call' = [call EXCEPT ![o] = NoCall]

\* the mutant: a failed native receive gives up the handle
RecvFailedCloses(o, e) ==
    [obj EXCEPT ![o] = [@ EXCEPT !._lastSystemError = e, !._socket = INVALID_SOCK]]

\* the objects after a native receive of o has failed with error e
RecvFailed(o, e) == [obj EXCEPT ![o]._lastSystemError = e]

\* one turn of the loop in TcpSocket::receive
TcpReceiveStep(o) ==
    LET c == call[o]
        h == obj[o]._socket
        usable == IsOpenFd(fds, h) /\ fds[h].st = "conn" /\ ~fds[h].rst
    IN
    /\ ~halted
    /\ c.op = "receive"
    /\ IF usable /\ fds[h].rx # <<>>
       THEN \* ::recv returns k bytes
            \E k \in 1..Min(c.rem, Len(fds[h].rx)) :
            LET c2 == [c EXCEPT !.buf = StoreAtCursor(c, SubSeq(fds[h].rx, 1, k)),
                                !.rem = c.rem - k,
                                !.sys = Append(c.sys, Sys("recv", h, TRUE))]
            IN
            /\ fds' = [fds EXCEPT ![h].rx = SubSeq(@, k + 1, Len(@))]
            /\ IF c2.rem > 0
               THEN /\ call' = [call EXCEPT ![o] = c2]
                    /\ UNCHANGED <<obj, last, prev, got, budget>>
               ELSE /\ obj' = [obj EXCEPT ![o]._lastSystemError = getLastError(o)]
                    /\ ReceiveReturn(o, c2, "Success", c2.sys, c.n)
            /\ UNCHANGED errno
       ELSE IF usable /\ fds[h].fin = "arrived"
       THEN \* ::recv returns 0
            /\ fds' = KClose(fds, h)
            /\ obj' = [obj EXCEPT ![o] = [@ EXCEPT !._lastSystemError = getLastError(o),
                                                   !._socket = INVALID_SOCK]]
            /\ ReceiveReturn(o, c, "ConnectionClosed",
                             c.sys \o <<Sys("recv", h, TRUE), Sys("close", h, TRUE)>>,
                             TotalReceived(c))
            /\ UNCHANGED errno
       ELSE \* ::recv returns a negative value, or keeps waiting
            \E e \in {IF usable THEN NoDataErrno(fds, h) ELSE EOTHER} :
            /\ e # 0
            /\ SetErrno(o, e)
            /\ obj' = RecvFailed(o, e)
            /\ ReceiveReturn(o, c, RecvError(o, e),
                             Append(c.sys, Sys("recv", h, FALSE)), TotalReceived(c))
            /\ UNCHANGED fds
    /\ UNCHANGED <<netVars, thrVars, life, driver, nsent, acked, halted>>

\* sizeof(tempBuffer) in TcpSocket::receiveOnce
TEMP_BUFFER == 10240

\* the contents a caller's vector can have when it is passed to receiveOnce
Vectors == {<<>>, <<0>>}

\* the mutant: the received bytes are added behind what the vector held
AppendReceived(vec, bytes) == vec \o bytes

\* buffer.resize( received ); buffer.assign( tempBuffer, tempBuffer + received )
AssignReceived(vec, bytes) == bytes

\* TcpSocket::receiveOnce( buffer ): one native receive into the temporary
\* buffer; vec is what the caller's vector holds on entry
TcpReceiveOnce(o, vec) ==
    LET h == obj[o]._socket
        usable == IsOpenFd(fds, h) /\ fds[h].st = "conn" /\ ~fds[h].rst
    IN
    /\ Callable(o)
    /\ IF ~isConnected(o)
       THEN /\ Return(o, [Done("receiveOnce", "NotConnected", <<>>, FALSE)
                           EXCEPT !.same = TRUE, !.vec = vec, !.buf = vec])
            /\ UNCHANGED <<obj, fds, errno, got>>
       ELSE IF usable /\ fds[h].rx # <<>>
       THEN \E k \in 1..Min(TEMP_BUFFER, Len(fds[h].rx)) :
            /\ fds' = [fds EXCEPT ![h].rx = SubSeq(@, k + 1, Len(@))]
            /\ obj' = [obj EXCEPT ![o]._lastSystemError = getLastError(o)]
            /\ Return(o, [Done("receiveOnce", "Success", <<Sys("recv", h, TRUE)>>, TRUE)
                           EXCEPT !.received = k, !.vec = vec,
                                  !.buf = AssignReceived(vec, SubSeq(fds[h].rx, 1, k))])
            /\ got' = [got EXCEPT ![o] = @ \o SubSeq(fds[h].rx, 1, k)]
            /\ UNCHANGED errno
       ELSE IF usable /\ fds[h].fin = "arrived"
       THEN /\ fds' = KClose(fds, h)
            /\ obj' = [obj EXCEPT ![o] = [@ EXCEPT !._lastSystemError = getLastError(o),
                                                   !._socket = INVALID_SOCK]]
            /\ Return(o, [Done("receiveOnce", "ConnectionClosed",
                               <<Sys("recv", h, TRUE), Sys("close", h, TRUE)>>, TRUE)
                           EXCEPT !.vec = vec, !.buf = vec])
            /\ UNCHANGED <<errno, got>>
       ELSE \E e \in {IF usable THEN NoDataErrno(fds, h) ELSE EOTHER} :
            /\ e # 0
            /\ SetErrno(o, e)
            /\ obj' = RecvFailed(o, e)
            /\ Return(o, [Done("receiveOnce", RecvError(o, e),
                               <<Sys("recv", h, FALSE)>>, TRUE)
                           EXCEPT !.vec = vec, !.buf = vec])
            /\ UNCHANGED <<fds, got>>
    /\ UNCHANGED <<netVars, thrVars, life, driver, call, nsent, acked, halted>>

(***************************************************************************)
(* The network                                                             *)
(***************************************************************************)
\* the next byte in flight reaches the receive queue of descriptor h
Deliver(h) ==
    /\ ~halted
    /\ fds[h].st \in {"conn", "pending"}
    /\ fds[h].inflight # <<>>
    /\ fds' = [fds EXCEPT ![h].rx = Append(@, Head(fds[h].inflight)),
                          ![h].inflight = Tail(@)]
    /\ UNCHANGED <<netVars, thrVars, life, obj, errno, driver, call, last, prev,
                   nsent, got, acked, halted, budget>>

\* the peer's FIN arrives, after the bytes sent before it
DeliverFin(h) ==
    /\ ~halted
    /\ fds[h].st \in {"conn", "pending"}
    /\ fds[h].inflight = <<>>
    /\ fds[h].fin = "flight"
    /\ fds' = [fds EXCEPT ![h].fin = "arrived"]
    /\ UNCHANGED <<netVars, thrVars, life, obj, errno, driver, call, last, prev,
                   nsent, got, acked, halted, budget>>

\* the connection of descriptor h breaks
NetReset(h) ==
    /\ ~halted
    /\ fds[h].st = "conn"
    /\ ~fds[h].rst
    /\ fds' = [fds EXCEPT ![h].rst = TRUE]
    /\ UNCHANGED <<netVars, thrVars, life, obj, errno, driver, call, last, prev,
                   nsent, got, acked, halted, budget>>

(***************************************************************************)
(* Spec: the lifecycle of the socket objects, all driven by one thread.    *)
(* t1 and the server and UDP sockets exist from the start; t2 comes into   *)
(* being as the result of accept or by move construction.                  *)
(***************************************************************************)
\* a listening socket of another process on this host
ExtListener == [FreeFd EXCEPT !.st = "listen", !.port = 1]

\* which objects exist: a TCP client with a server of another process to
\* connect to, a TCP server, or a UDP socket
Scenes ==
    { [alive |-> {"t1"}, listener |-> TRUE],
      [alive |-> {"srv"}, listener |-> FALSE],
      [alive |-> {"u1"}, listener |-> FALSE] }

Init ==
    /\ NetInit
    /\ ThreadInit
    /\ \E sc \in Scenes :
        /\ life = [o \in ObjIds |-> IF o \in sc.alive THEN "alive" ELSE "none"]
        /\ fds = [f \in Fds |-> IF sc.listener /\ f = MaxFd THEN ExtListener ELSE FreeFd]
    /\ obj = [o \in ObjIds |-> DefaultSocket]
    /\ errno = [t \in SockThreads |-> SUCCESS]
    /\ driver = [o \in ObjIds |-> "main"]
    /\ call = [o \in ObjIds |-> NoCall]
    /\ last = [t \in SockThreads |-> NoDone]
    /\ prev = [t \in SockThreads |-> Brief(NoDone)]
    /\ nsent = [o \in ObjIds |-> 0]
    /\ got = [o \in ObjIds |-> <<>>]
    /\ acked = [o \in ObjIds |-> 0]
    /\ halted = FALSE
    /\ budget = MaxOps

\* a client of another process connects to a listening socket of the program
ExtConnect(l) ==
    /\ ~halted
    /\ l \in Listeners(fds)
    /\ \E o \in ObjIds : life[o] = "alive" /\ obj[o]._socket = l
    /\ Cardinality(FreeFds(fds)) >= 2
    /\ LET c == NewFd(fds)
           b == NewFd([fds EXCEPT ![c].st = "conn"])
       IN fds' = [fds EXCEPT ![c] = [FreeFd EXCEPT !.st = "conn", !.peer = b],
                             ![b] = [FreeFd EXCEPT !.st = "pending", !.peer = c],
                             ![l].backlog = Append(@, b)]
    /\ UNCHANGED <<netVars, thrVars, life, obj, errno, driver, call, last, prev,
                   nsent, got, acked, halted, budget>>

TcpLifecycle ==
    \E o \in TcpIds :
        \/ \E byHost \in BOOLEAN : TcpConnect(o, byHost)
        \/ TcpDisconnect(o)
        \/ TcpDestroy(o)
        \/ \E src \in TcpIds : MoveAssign(o, src)
        \/ \E src \in TcpIds : MoveConstruct(o, src)
        \/ \E on \in BOOLEAN : SetTimeout(o, on)

TcpTransfer ==
    \E o \in TcpIds :
        \/ \E len \in 1..MaxLen : TcpSend(o, len)
        \/ TcpSendStep(o)
        \/ \E n \in 1..MaxLen : TcpReceive(o, n)
        \/ TcpReceiveStep(o)
        \/ \E vec \in Vectors : TcpReceiveOnce(o, vec)

ServerCalls ==
    \E o \in SrvIds :
        \/ ServerOpen(o, 1)
        \/ ServerClose(o)
        \/ ServerDestroy(o)
        \/ \E dst \in TcpIds : ServerAccept(o, dst)

UdpCalls ==
    \E o \in UdpIds :
        \/ \E port \in Ports : UdpOpen(o, port)
        \/ UdpClose(o)
        \/ UdpDestroy(o)
        \/ \E port \in Ports, len \in 1..MaxLen : UdpSendTo(o, LoopbackEndpoint(port), len)
        \/ \E n \in 1..MaxLen : UdpRecvFrom(o, n)

Network ==
    \E h \in Fds :
        \/ Deliver(h)
        \/ DeliverFin(h)
        \/ NetReset(h)
        \/ ExtConnect(h)

Next ==
    \/ TcpLifecycle
    \/ TcpTransfer
    \/ ServerCalls
    \/ UdpCalls
    \/ Network
    \/ \E o \in ObjIds, enable \in BOOLEAN : SetBlockingMode(o, enable)

Spec == Init /\ [][Next]_vars

(***************************************************************************)
(* StreamSpec: a connected pair.  t1, driven by the peer's thread, has     *)
(* connected to the program's server and sends; t2 is the socket accept    *)
(* returned for that connection and receives.  The server socket has been  *)
(* destroyed since.                                                        *)
(***************************************************************************)
Sender == "t1"
Receiver == "t2"
SenderFd == 1
ReceiverFd == 2

\* how the receiver has been set up: setBlockingMode and setTimeout
ReceiverModes ==
    { [nonblock |-> FALSE, rcvtimeo |-> FALSE],
      [nonblock |-> FALSE, rcvtimeo |-> TRUE],
      [nonblock |-> TRUE, rcvtimeo |-> FALSE] }

StreamInit ==
    /\ platform \in Platforms
    /\ UtilIdle
    /\ _initialized = TRUE
    /\ succeeded = TRUE
    /\ ThreadInit
    /\ life = [o \in ObjIds |-> IF o \in TcpIds THEN "alive"
                                ELSE IF o \in SrvIds THEN "dead" ELSE "none"]
    /\ \E m \in ReceiverModes :
        /\ fds = [f \in Fds |->
                    IF f = SenderFd
                    THEN [FreeFd EXCEPT !.st = "conn", !.peer = ReceiverFd]
                    ELSE IF f = ReceiverFd
                    THEN [FreeFd EXCEPT !.st = "conn", !.peer = SenderFd,
                                        !.nonblock = m.nonblock, !.rcvtimeo = m.rcvtimeo]
                    ELSE FreeFd]
        /\ obj = [o \in ObjIds |->
                    IF o = Sender THEN SocketFrom(SenderFd)
                    ELSE IF o = Receiver
                    THEN [SocketFrom(ReceiverFd) EXCEPT !._isBlocking = ~m.nonblock]
                    ELSE DefaultSocket]
    /\ errno = [t \in SockThreads |-> SUCCESS]
    /\ driver = [o \in ObjIds |-> IF o = Sender THEN "peer" ELSE "main"]
    /\ call = [o \in ObjIds |-> NoCall]
    /\ last = [t \in SockThreads |-> NoDone]
    /\ prev = [t \in SockThreads |-> Brief(NoDone)]
    /\ nsent = [o \in ObjIds |-> 0]
    /\ got = [o \in ObjIds |-> <<>>]
    /\ acked = [o \in ObjIds |-> 0]
    /\ halted = FALSE
    /\ budget = -1

\* the peer's application: it sends, and may disconnect
SenderCalls ==
    \/ \E len \in 1..MaxLen : TcpSend(Sender, len)
    \/ TcpSendStep(Sender)
    \/ TcpDisconnect(Sender)

ReceiverCalls ==
    \/ \E n \in 1..MaxLen : TcpReceive(Receiver, n)
    \/ TcpReceiveStep(Receiver)
    \/ \E vec \in Vectors : TcpReceiveOnce(Receiver, vec)

StreamNetwork ==
    \E h \in Fds :
        \/ Deliver(h)
        \/ DeliverFin(h)
        \/ NetReset(h)

StreamNext ==
    \/ SenderCalls
    \/ ReceiverCalls
    \/ StreamNetwork

StreamSpec == StreamInit /\ [][StreamNext]_vars

(***************************************************************************)
(* FairStreamSpec: the connected pair with a receiver that keeps asking    *)
(* for what is still missing of MaxLen bytes, a network that keeps         *)
(* delivering and a receive loop that keeps running.                       *)
(***************************************************************************)
RecvRemaining ==
    \E n \in 1..(MaxLen - Len(got[Receiver])) : TcpReceive(Receiver, n)

DeliverSome == \E h \in Fds : Deliver(h)

FairStreamNext ==
    \/ SenderCalls
    \/ RecvRemaining
    \/ TcpReceiveStep(Receiver)
    \/ StreamNetwork

FairStreamSpec ==
    /\ StreamInit
    /\ [][FairStreamNext]_vars
    /\ WF_vars(RecvRemaining)
    /\ WF_vars(TcpReceiveStep(Receiver))
    /\ WF_vars(DeliverSome)

\* the connection has been reset, or critical_error has stopped the process
Broken == halted \/ \E h \in Fds : fds[h].rst

(***************************************************************************)
(* C1: on a connected pair, what the receive calls of the receiver have    *)
(* returned is always a prefix of the sender's byte stream, in order, and  *)
(* once send calls of MaxLen bytes in total have all returned Success the  *)
(* receive calls asking for MaxLen bytes in total eventually have returned *)
(* exactly those bytes, however the kernel splits the native sends and     *)
(* receives, unless the connection breaks.                                 *)
(***************************************************************************)
C1_StreamInOrder ==
    /\ [](got[Receiver] = Payload(Len(got[Receiver])))
    /\ (acked[Sender] = MaxLen) ~> (got[Receiver] = Payload(MaxLen) \/ Broken)

\* the whole stream has come through, sent by a send call that needed more
\* than one native send and received by more than one receive call
C1_Witness ==
    /\ acked[Sender] = MaxLen
    /\ got[Receiver] = Payload(MaxLen)
    /\ ~Broken
    /\ last["peer"].op = "send" /\ Len(last["peer"].sys) > 1
    /\ last["main"].op = "receive" /\ last["main"].ret = "Success"
    /\ prev["main"].op = "receive"

(***************************************************************************)
(* Claims about the receiver of the connected pair, checked on StreamSpec. *)
(***************************************************************************)
\* the sender has sent exactly N bytes, every send call returning Success,
\* and has then disconnected; nothing has broken
PeerSentThenClosed(N) ==
    /\ nsent[Sender] = N
    /\ acked[Sender] = N
    /\ obj[Sender]._socket = INVALID_SOCK
    /\ ~Broken

\* the completed receive call d was bound to see the peer's close: its
\* native receive waits without limit, or the end of the stream had
\* arrived when it began
SeesClose(d) == d.mode = "wait" \/ d.eof

\* C2 as the specification states it: after the peer has sent exactly N
\* bytes and closed, receive of N bytes returns Success with N bytes, and
\* the receive call that follows it returns NotConnected
C2_Original ==
    \A N \in 1..MaxLen :
        PeerSentThenClosed(N) =>
            /\ ( /\ last["main"].op = "receive" /\ prev["main"].op = "none"
                 /\ last["main"].n = N /\ SeesClose(last["main"]) )
               => (last["main"].ret = "Success" /\ last["main"].received = N)
            /\ ( /\ last["main"].op = "receive" /\ prev["main"].op = "receive"
                 /\ prev["main"].ret = "Success" /\ prev["main"].n = N
                 /\ SeesClose(last["main"]) )
               => last["main"].ret = "NotConnected"

(***************************************************************************)
(* C2: after the peer has sent exactly N bytes and closed, a receive of N  *)
(* bytes that waits for the data returns Success with outReceived = N and  *)
(* the N bytes; the receive call that follows it returns ConnectionClosed  *)
(* with outReceived = 0 and closes the local handle; a receive call that   *)
(* follows a ConnectionClosed one returns NotConnected without a native    *)
(* call.                                                                   *)
(***************************************************************************)
C2_ClosedThenNotConnected ==
    /\ \A N \in 1..MaxLen :
        PeerSentThenClosed(N) =>
            /\ ( /\ last["main"].op = "receive" /\ prev["main"].op = "none"
                 /\ last["main"].n = N /\ SeesClose(last["main"]) )
               => ( /\ last["main"].ret = "Success"
                    /\ last["main"].received = N
                    /\ last["main"].buf = Payload(N) )
            /\ ( /\ last["main"].op = "receive" /\ prev["main"].op = "receive"
                 /\ prev["main"].ret = "Success" /\ prev["main"].n = N
                 /\ SeesClose(last["main"]) )
               => ( /\ last["main"].ret = "ConnectionClosed"
                    /\ last["main"].received = 0
                    /\ obj[Receiver]._socket = INVALID_SOCK
                    /\ ~IsOpenFd(fds, ReceiverFd) )
    /\ ( /\ last["main"].op = "receive" /\ prev["main"].op = "receive"
         /\ prev["main"].ret = "ConnectionClosed" )
       => (last["main"].ret = "NotConnected" /\ last["main"].sys = <<>>)

\* the peer has sent MaxLen bytes and closed, a receive of MaxLen bytes has
\* returned Success and the receive after it has returned
C2_Witness ==
    /\ PeerSentThenClosed(MaxLen)
    /\ last["main"].op = "receive" /\ prev["main"].op = "receive"
    /\ prev["main"].ret = "Success" /\ prev["main"].n = MaxLen
    /\ SeesClose(last["main"])
    /\ got[Receiver] = Payload(MaxLen)

HasSys(d, name, ok) ==
    \E k \in 1..Len(d.sys) : d.sys[k].name = name /\ d.sys[k].ok = ok

\* the completed call d went through the platform startup call
TriedStartup(d) == HasSys(d, "startup", TRUE) \/ HasSys(d, "startup", FALSE)

(***************************************************************************)
(* C4: connect returns ConnectFailed exactly when the native connect call  *)
(* failed and HostNotResolved exactly when name resolution failed; when    *)
(* it returns either, the socket is not connected and the descriptors      *)
(* that are open are those that were open before the call: what the call   *)
(* created it has closed again.                                            *)
(***************************************************************************)
OpenFds(F) == {f \in Fds : IsOpenFd(F, f)}

ConnectReturns ==
    (budget' # budget /\ last'["main"].op = "connect") =>
        /\ HasSys(last'["main"], "connect", FALSE) <=> last'["main"].ret = "ConnectFailed"
        /\ HasSys(last'["main"], "getaddrinfo", FALSE)
              <=> last'["main"].ret = "HostNotResolved"
        /\ last'["main"].ret = "HostNotResolved" => ~HasSys(last'["main"], "socket", TRUE)
        /\ last'["main"].ret \in {"ConnectFailed", "HostNotResolved"} =>
              /\ obj'[last'["main"].obj]._socket = INVALID_SOCK
              /\ OpenFds(fds') = OpenFds(fds)

C4_ConnectFailureLeavesNothing == [][ConnectReturns]_vars

\* a connect call has created a descriptor and the native connect has failed
C4_Witness ==
    /\ last["main"].op = "connect"
    /\ last["main"].ret = "ConnectFailed"
    /\ last["main"].fresh # {}
    /\ HasSys(last["main"], "socket", TRUE)

(***************************************************************************)
(* C5: a disconnect call on a connected TcpSocket and a close call on a    *)
(* listening TcpServerSocket that return, return Success; the same call    *)
(* made next on the same object returns NotConnected, respectively         *)
(* NotOpen, issues no native call and changes neither the object, the      *)
(* descriptor table, the thread's native error nor the subsystem.          *)
(***************************************************************************)
FirstCloseSucceeds ==
    ( /\ last["main"].op \in {"disconnect", "close"}
      /\ last["main"].obj \in TcpIds \cup SrvIds
      /\ last["main"].valid
      /\ ~halted )
    => last["main"].ret = "Success"

SecondCloseIsNoOp ==
    ( /\ budget' # budget
      /\ last["main"].ret = "Success"
      /\ last'["main"].obj = last["main"].obj
      /\ \/ /\ last["main"].op = "disconnect" /\ last'["main"].op = "disconnect"
            /\ last["main"].obj \in TcpIds
         \/ /\ last["main"].op = "close" /\ last'["main"].op = "close"
            /\ last["main"].obj \in SrvIds )
    => ( /\ last'["main"].ret =
               (IF last["main"].obj \in TcpIds THEN "NotConnected" ELSE "NotOpen")
         /\ last'["main"].sys = <<>>
         /\ UNCHANGED <<netVars, life, obj, fds, errno, halted>> )

C5_SecondCloseRejected == []FirstCloseSucceeds /\ [][SecondCloseIsNoOp]_vars

\* disconnect has been called twice in a row on a TcpSocket that was connected
C5_Witness ==
    /\ last["main"].op = "disconnect" /\ prev["main"].op = "disconnect"
    /\ last["main"].obj = prev["main"].obj
    /\ prev["main"].ret = "Success"
    /\ last["main"].ret = "NotConnected"

\* C6 as the specification states it: an I/O operation on a socket whose
\* native handle is invalid fails fast with NotConnected, NotOpen or an
\* unaccepted socket, and issues no native call
C6_Original ==
    ( /\ last["main"].op \in {"send", "receive", "receiveOnce", "sendTo", "recvFrom", "accept"}
      /\ ~last["main"].valid )
    => ( /\ last["main"].ret \in {"NotConnected", "NotOpen", "Unaccepted"}
         /\ last["main"].sys = <<>> )

\* C7 as the specification states it: once a socket object has been
\* destroyed, the native handle it held is no longer open
C7_Original ==
    \A o \in ObjIds :
        (life[o] = "dead" /\ ~halted) => ~IsOpenFd(fds, obj[o]._socket)

\* C8 as the specification states it: after a move the source is in the
\* state of a default-constructed socket
C8_Original ==
    last["main"].op = "move" => obj[last["main"].other] = DefaultSocket

(***************************************************************************)
(* C10: a connect or open call during which the platform startup call      *)
(* fails returns NetworkingInitFailed, and only then; the handle is still  *)
(* invalid and the flag still false; the next connect or open call on an   *)
(* invalid handle goes through the startup call again; a call whose        *)
(* startup call succeeds sets the flag and does not return                 *)
(* NetworkingInitFailed, and neither does any call made while the flag is  *)
(* set.                                                                    *)
(***************************************************************************)
C10_StartupRetried ==
    last["main"].op \in {"connect", "open"} =>
        /\ HasSys(last["main"], "startup", FALSE) <=> last["main"].ret = "NetworkingInitFailed"
        /\ last["main"].ret = "NetworkingInitFailed" =>
              /\ obj[last["main"].obj]._socket = INVALID_SOCK
              /\ ~_initialized
              /\ Len(last["main"].sys) = 1
        /\ (prev["main"].ret = "NetworkingInitFailed" /\ ~last["main"].valid) =>
              TriedStartup(last["main"])
        /\ HasSys(last["main"], "startup", TRUE) => _initialized
        /\ _initialized => last["main"].ret # "NetworkingInitFailed"

\* a call has failed on the startup, and the call after it has started the
\* subsystem and connected
C10_Witness ==
    /\ prev["main"].ret = "NetworkingInitFailed"
    /\ last["main"].op = "connect"
    /\ HasSys(last["main"], "startup", TRUE)
    /\ last["main"].ret = "Success"

InitSpecInit == NetInit /\ ThreadInit /\ SockInit

InitSpecNext ==
    \E t \in Threads :
        \/ InitCall(t)
        \/ FastCheck(t)
        \/ Lock(t)
        \/ Recheck(t)
        \/ Startup(t)
        \/ InitReturn(t)
        \/ CallerContinues(t)

InitSpec == InitSpecInit /\ [][InitSpecNext]_vars

(***************************************************************************)
(* C9: under any interleaving of threads in initializeIfNotAlready, at     *)
(* most one thread is inside the platform startup call at a time, no       *)
(* thread is inside it once one execution has succeeded, and every call    *)
(* that returns after that success returns true.                           *)
(***************************************************************************)
InStartup == {t \in Threads : tpc[t] = "startup"}

C9_StartupOnce ==
    /\ Cardinality(InStartup) <= 1
    /\ succeeded => InStartup = {}
    /\ \A t \in Threads : tret[t].afterOk => tret[t].val = "true"

\* two threads have called concurrently, one startup has succeeded, and a
\* thread that went through the lock has returned after it
C9_Witness ==
    /\ succeeded
    /\ \E t, u \in Threads :
        /\ t # u
        /\ tret[t].afterOk
        /\ tpc[u] = "recheck"
        /\ ncalls[t] = 1
(***************************************************************************)
(* C11: under any interleaving of the threads, a connect or open method    *)
(* goes on to create a native socket only when a platform startup call has *)
(* completed successfully before: the call of initializeIfNotAlready it    *)
(* made returned true, and returned after that success.                    *)
(***************************************************************************)
C11_NoSocketBeforeStartup ==
    \A t \in Threads :
        /\ tret[t].socket => (succeeded /\ tret[t].afterOk /\ tret[t].val = "true")
        /\ tret[t].val = "true" => tret[t].afterOk
        /\ ~succeeded => ~_initialized

\* a thread has gone through the lock while another made the startup call,
\* and both methods have created their sockets
C11_Witness ==
    \E t, u \in Threads :
        /\ t # u
        /\ tret[t].socket /\ tret[u].socket
        /\ tret[t].caller = "connect" /\ tret[u].caller = "udpOpen"
        /\ ncalls[t] = 1 /\ ncalls[u] = 1
(***************************************************************************)
(* C12: a connect call, of either overload, made on a TcpSocket whose      *)
(* handle is valid returns AlreadyConnected, and no other connect call     *)
(* does; it issues no native call (no startup, no resolution, no socket)   *)
(* and leaves the object, the descriptor table with the connection, the    *)
(* thread's native error and the subsystem as they were.                   *)
(***************************************************************************)
ConnectOnConnected ==
    (budget' # budget /\ last'["main"].op = "connect") =>
        /\ last'["main"].ret = "AlreadyConnected"
              <=> obj[last'["main"].obj]._socket # INVALID_SOCK
        /\ last'["main"].ret = "AlreadyConnected" =>
              /\ last'["main"].sys = <<>>
              /\ UNCHANGED <<netVars, life, obj, fds, errno, halted>>

C12_AlreadyConnected == [][ConnectOnConnected]_vars

\* connect has been called on the socket a connect call had just connected
C12_Witness ==
    /\ last["main"].op = "connect" /\ prev["main"].op = "connect"
    /\ last["main"].obj = prev["main"].obj
    /\ prev["main"].ret = "Success"
    /\ last["main"].ret = "AlreadyConnected"
    /\ IsOpenFd(fds, obj[last["main"].obj]._socket)
(***************************************************************************)
(* C13: a send call returns NotConnected exactly when the handle was       *)
(* invalid, and then without a native call; it returns Success only when   *)
(* every native send succeeded and the kernel has taken the bytes of the   *)
(* buffer, each once and in order; it returns SendFailed exactly when a    *)
(* native send reported an error, which is then the last native call       *)
(* made, after what the kernel had taken of the buffer before.             *)
(***************************************************************************)
\* the buffer of the send call of n bytes that handed over the stream up to
\* byte upto
SendBuffer(upto, n) == [k \in 1..n |-> (upto - n) + k]

C13_SendAllOrFail ==
    LET d == last["peer"] IN
    (d.op = "send" /\ call[Sender].op = "none") =>
        /\ d.ret \in {"Success", "SendFailed", "NotConnected"}
        /\ d.ret = "NotConnected" <=> ~d.valid
        /\ d.ret = "NotConnected" => d.sys = <<>>
        /\ d.ret = "Success" =>
              /\ \A k \in 1..Len(d.sys) : d.sys[k] = Sys("send", SenderFd, TRUE)
              /\ d.buf = SendBuffer(nsent[Sender], d.n)
        /\ d.ret = "SendFailed" <=> HasSys(d, "send", FALSE)
        /\ d.ret = "SendFailed" =>
              /\ \A k \in 1..Len(d.sys) : d.sys[k].ok <=> k < Len(d.sys)
              /\ Len(d.buf) < d.n
              /\ d.buf = SubSeq(SendBuffer(nsent[Sender], d.n), 1, Len(d.buf))

\* a send call has failed after the kernel had taken part of the buffer
C13_Witness ==
    /\ last["peer"].op = "send"
    /\ last["peer"].ret = "SendFailed"
    /\ Len(last["peer"].sys) > 1
    /\ last["peer"].buf # <<>>
(***************************************************************************)
(* C14: on a connected TcpSocket in non-blocking mode, a receive or        *)
(* receiveOnce call whose native receive fails with a would-block error    *)
(* returns WouldBlock; that native receive is the last native call it      *)
(* makes, and receive reports as outReceived the bytes it has stored in    *)
(* the buffer so far.                                                      *)
(***************************************************************************)
\* the number of bytes a receive call has stored in its buffer, which held
\* zeros when the call began
Stored(buf) == Cardinality({k \in 1..Len(buf) : buf[k] # 0})

\* the completed call d ended with a native receive that failed
RecvFailedLast(d) ==
    /\ d.sys # <<>>
    /\ \A k \in 1..Len(d.sys) :
          /\ d.sys[k].name = "recv"
          /\ d.sys[k].ok <=> k < Len(d.sys)

C14_WouldBlock ==
    LET d == last["main"] IN
    ( /\ d.op \in {"receive", "receiveOnce"}
      /\ ~obj[Receiver]._isBlocking
      /\ IsOpenFd(fds, ReceiverFd) /\ fds[ReceiverFd].nonblock
      /\ RecvFailedLast(d)
      /\ _isWouldBlock(obj[Receiver]._lastSystemError) )
    => ( /\ d.ret = "WouldBlock"
         /\ d.op = "receive" =>
               /\ d.received = Stored(d.buf)
               /\ d.received < d.n
               /\ \A k \in 1..d.received : d.buf[k] # 0 )

\* a non-blocking receive has stored a byte and then found nothing more
C14_Witness ==
    /\ last["main"].op = "receive"
    /\ last["main"].ret = "WouldBlock"
    /\ last["main"].received = 1
    /\ Len(last["main"].sys) = 2
    /\ ~obj[Receiver]._isBlocking
(***************************************************************************)
(* C15: on a connected TcpSocket whose native handle is in blocking mode   *)
(* with a receive timeout configured, a receive that gets no byte because  *)
(* the timeout elapsed returns Timeout, whatever calls were made on the    *)
(* object before.  The code does not satisfy this: the classification      *)
(* reads the cached _isBlocking, which a move leaves false on the source   *)
(* object and which connect does not reset, and on POSIX the elapsed       *)
(* timeout is reported with the would-block error number.                  *)
(***************************************************************************)
\* the completed receive d waited on a blocking handle with a timeout and its
\* only native receive failed because the timeout elapsed
TimedOutWaiting(d) ==
    /\ d.op = "receive"
    /\ d.valid
    /\ d.mode = "timeout"
    /\ Len(d.sys) = 1
    /\ ~d.sys[1].ok
    /\ _isTimeout(obj[d.obj]._lastSystemError)

C15_Original ==
    TimedOutWaiting(last["main"]) => last["main"].ret = "Timeout"
(***************************************************************************)
(* C16: after receive or receiveOnce has returned Other because its native *)
(* receive failed with a fatal error, the TcpSocket is disconnected:       *)
(* isConnected() is false.  The code does not satisfy this: only the       *)
(* branch for an orderly close by the peer closes the handle and resets    *)
(* _socket; the Other branch returns with the object unchanged.            *)
(***************************************************************************)
C16_Original ==
    LET d == last["main"] IN
    ( /\ d.op \in {"receive", "receiveOnce"}
      /\ d.ret = "Other"
      /\ HasSys(d, "recv", FALSE) )
    => ~isConnected(d.obj)
(***************************************************************************)
(* C17: open on a TcpServerSocket or UdpSocket that is already open        *)
(* returns AlreadyOpen and changes nothing.  When bind or listen fails,    *)
(* open returns BindFailed or ListenFailed respectively, the native socket *)
(* the call created has been closed, and the object is left closed, so a   *)
(* later open is not rejected as AlreadyOpen.                              *)
(***************************************************************************)
OpenReturns ==
    LET d == last'["main"] IN
    (budget' # budget /\ d.op = "open") =>
        /\ d.ret = "AlreadyOpen" <=> obj[d.obj]._socket # INVALID_SOCK
        /\ d.ret = "AlreadyOpen" =>
              /\ d.sys = <<>>
              /\ UNCHANGED <<netVars, life, obj, fds, errno, halted>>
        /\ d.ret = "BindFailed" <=> HasSys(d, "bind", FALSE)
        /\ d.ret = "ListenFailed" <=> HasSys(d, "listen", FALSE)
        /\ d.ret \in {"BindFailed", "ListenFailed"} =>
              /\ HasSys(d, "socket", TRUE)
              /\ \A f \in d.fresh : ~IsOpenFd(fds', f) /\ d.sys[Len(d.sys)] = Sys("close", f, TRUE)
              /\ OpenFds(fds') = OpenFds(fds)
              /\ obj'[d.obj]._socket = INVALID_SOCK

C17_OpenFailures == [][OpenReturns]_vars

\* a server's bind has failed, and the next open on it got as far as listen
C17_Witness ==
    /\ prev["main"].op = "open"
    /\ prev["main"].ret = "BindFailed"
    /\ last["main"].op = "open"
    /\ last["main"].ret = "ListenFailed"
    /\ last["main"].obj = prev["main"].obj
    /\ last["main"].fresh # {}
(***************************************************************************)
(* C18: accept on a TcpServerSocket that is not open, or whose native      *)
(* accept fails, returns a TcpSocket with isAccepted() false.  A           *)
(* successful accept returns a TcpSocket that owns a new native handle,    *)
(* different from the listening handle, and leaves the server listening.   *)
(* A later close or disconnect of one object leaves the handle of every    *)
(* other object open.                                                      *)
(***************************************************************************)
\* the objects constructed in this step
Constructed == {x \in ObjIds : life[x] = "none" /\ life'[x] = "alive"}

AcceptReturns ==
    LET d == last'["main"]
        srv == obj[d.obj]._socket
    IN
    (budget' # budget /\ d.op = "accept") =>
        /\ Cardinality(Constructed) = 1
        /\ d.ret \in {"Accepted", "Unaccepted"}
        /\ d.ret = "Unaccepted" <=> (srv = INVALID_SOCK \/ HasSys(d, "accept", FALSE))
        /\ srv = INVALID_SOCK => d.sys = <<>>
        /\ obj'[d.obj]._socket = srv
        /\ \A x \in Constructed :
              /\ d.ret = "Unaccepted" =>
                    /\ ~isConnected(x)'
                    /\ OpenFds(fds') = OpenFds(fds)
              /\ d.ret = "Accepted" =>
                    /\ isConnected(x)'
                    /\ obj'[x]._socket # srv
                    /\ d.fresh = {obj'[x]._socket}
                    /\ ~IsOpenFd(fds, obj'[x]._socket)
                    /\ IsOpenFd(fds', obj'[x]._socket)
                    /\ fds'[obj'[x]._socket].st = "conn"
                    /\ \A y \in ObjIds \ {x} : obj[y]._socket # obj'[x]._socket
                    /\ IsOpenFd(fds', srv)
                    /\ fds'[srv].st = "listen"

\* closing one object leaves the handles of the others as they are
CloseLeavesOthers ==
    LET d == last'["main"] IN
    (budget' # budget /\ d.op \in {"close", "disconnect"}) =>
        \A y \in ObjIds \ {d.obj} :
            /\ obj'[y] = obj[y]
            /\ IsOpenFd(fds, obj[y]._socket) =>
                  /\ IsOpenFd(fds', obj[y]._socket)
                  /\ fds'[obj[y]._socket].st = fds[obj[y]._socket].st

C18_Accept == [][AcceptReturns /\ CloseLeavesOthers]_vars

\* the server has been closed after a successful accept and the accepted
\* socket still holds its open connection
C18_Witness ==
    /\ prev["main"] = [op |-> "accept", ret |-> "Accepted", n |-> prev["main"].n, obj |-> "srv"]
    /\ last["main"].op = "close"
    /\ last["main"].ret = "Success"
    /\ last["main"].obj = "srv"
    /\ \E x \in TcpIds :
          /\ life[x] = "alive"
          /\ IsOpenFd(fds, obj[x]._socket)
          /\ fds[obj[x]._socket].st = "conn"
(***************************************************************************)
(* C19: setBlockingMode( enable ) returns true and sets the cached         *)
(* _isBlocking to enable exactly when the native mode change succeeds;     *)
(* when it fails the call returns false, _isBlocking keeps its value and   *)
(* the native error is stored in _lastSystemError.                         *)
(***************************************************************************)
SetBlockingModeReturns ==
    LET d == last'["main"]
        h == obj[d.obj]._socket
    IN
    (budget' # budget /\ d.op = "setBlockingMode") =>
        /\ d.ret \in {"true", "false"}
        /\ d.ret = "true" <=> HasSys(d, "fcntl", TRUE)
        /\ d.ret = "false" <=> HasSys(d, "fcntl", FALSE)
        /\ \A y \in ObjIds \ {d.obj} : obj'[y] = obj[y]
        /\ obj'[d.obj]._socket = h
        /\ d.ret = "true" =>
              /\ obj'[d.obj]._isBlocking = d.enable
              /\ obj'[d.obj]._lastSystemError = obj[d.obj]._lastSystemError
              /\ fds'[h].nonblock = ~d.enable
        /\ d.ret = "false" =>
              /\ obj'[d.obj]._isBlocking = obj[d.obj]._isBlocking
              /\ errno'["main"] # SUCCESS
              /\ obj'[d.obj]._lastSystemError = errno'["main"]
              /\ fds' = fds

C19_SetBlockingMode == [][SetBlockingModeReturns]_vars

\* an object without a handle whose cached flag says non-blocking was asked
\* to block: the call failed and the cached flag still says non-blocking
C19_Witness ==
    /\ last["main"].op = "setBlockingMode"
    /\ last["main"].ret = "false"
    /\ last["main"].enable
    /\ ~obj[last["main"].obj]._isBlocking
    /\ obj[last["main"].obj]._lastSystemError = EOTHER
(***************************************************************************)
(* C20: an explicit call of disconnect() or close() on an object that      *)
(* holds a handle never ends the process: when the native shutdown or      *)
(* close fails, the call returns an error code to its caller.  The code    *)
(* does not satisfy this: the three methods call critical_error when       *)
(* either native call fails, on the explicit path as in the destructors.   *)
(***************************************************************************)
C20_Original ==
    LET d == last["main"] IN
    (d.op \in {"disconnect", "close"} /\ d.valid) =>
        /\ ~halted
        /\ d.ret # "Halted"
        /\ (HasSys(d, "shutdown", FALSE) \/ HasSys(d, "close", FALSE)) => d.ret # "Success"
(***************************************************************************)
(* C21: receiveOnce on a connected socket makes exactly one native receive *)
(* call.  On a positive result the output vector holds exactly the bytes   *)
(* that call returned, at most 10240 of them.  On a zero or negative       *)
(* result the outcome is classified as in receive (ConnectionClosed with   *)
(* the handle closed, WouldBlock, Timeout, Other) and the output vector is *)
(* what it was on entry.                                                   *)
(***************************************************************************)
\* the last n elements of the sequence q
Suffix(q, n) == SubSeq(q, Len(q) - n + 1, Len(q))

\* the number of native receive calls the completed call d has made
RecvCalls(d) == Cardinality({k \in 1..Len(d.sys) : d.sys[k].name = "recv"})

C21_ReceiveOnce ==
    LET d == last["main"]
        e == obj[d.obj]._lastSystemError
    IN
    (d.op = "receiveOnce" /\ d.valid) =>
        /\ RecvCalls(d) = 1
        /\ d.sys[1].name = "recv"
        /\ d.ret \in {"Success", "ConnectionClosed", "WouldBlock", "Timeout", "Other"}
        /\ d.ret = "Success" =>
              /\ d.sys = <<Sys("recv", obj[d.obj]._socket, TRUE)>>
              /\ d.received \in 1..TEMP_BUFFER
              /\ Len(d.buf) = d.received
              /\ Len(got[d.obj]) >= d.received
              /\ d.buf = Suffix(got[d.obj], d.received)
        /\ d.ret # "Success" => d.buf = d.vec
        /\ d.ret = "ConnectionClosed" <=> (d.sys[1].ok /\ Len(d.sys) = 2)
        /\ d.ret = "ConnectionClosed" =>
              /\ d.sys[2] = Sys("close", d.sys[1].h, TRUE)
              /\ ~isConnected(d.obj)
        /\ ~d.sys[1].ok =>
              /\ Len(d.sys) = 1
              /\ d.ret = "WouldBlock" <=> (~obj[d.obj]._isBlocking /\ _isWouldBlock(e))
              /\ d.ret = "Timeout" <=>
                    (~(~obj[d.obj]._isBlocking /\ _isWouldBlock(e)) /\ _isTimeout(e))
              /\ d.ret \in {"WouldBlock", "Timeout", "Other"}

\* receiveOnce was given a vector that held a byte and has replaced its
\* contents with the bytes received
C21_Witness ==
    /\ last["main"].op = "receiveOnce"
    /\ last["main"].ret = "Success"
    /\ last["main"].vec # <<>>
    /\ last["main"].buf # <<>>
    /\ last["main"].buf # last["main"].vec
(***************************************************************************)
(* The vector overload of receive on one TcpSocket: the socket is          *)
(* connected and disconnected, its modes are set, the peer's host resets   *)
(* the connection, and receive( vector, size ) is called in between.       *)
(***************************************************************************)
VectorNext ==
    \/ \E byHost \in BOOLEAN : TcpConnect("t1", byHost)
    \/ TcpDisconnect("t1")
    \/ \E on \in BOOLEAN : SetTimeout("t1", on)
    \/ \E enable \in BOOLEAN : SetBlockingMode("t1", enable)
    \/ \E n \in 1..MaxLen : TcpReceiveVector("t1", n)
    \/ TcpReceiveStep("t1")
    \/ \E h \in Fds : NetReset(h)

VectorSpec == Init /\ [][VectorNext]_vars

(***************************************************************************)
(* C22: after receive( vector, size ) returns, whatever its result,        *)
(* NotConnected included, the size of the vector is the number of bytes    *)
(* the call has received.  The code does not satisfy this for              *)
(* NotConnected: the vector is resized to a local that nothing has         *)
(* assigned.                                                               *)
(***************************************************************************)
C22_Original ==
    LET d == last["main"] IN
    d.op = "receiveVector" =>
        /\ Len(d.buf) = d.received
        /\ d.ret = "NotConnected" => d.buf = <<>>
(***************************************************************************)
(* waitForAny.  Three sockets hold distinct open descriptors, in every     *)
(* assignment of descriptor numbers to sockets; data arrives at the TCP    *)
(* connections, and waitForAny is called on any subset of the sockets with *)
(* an output list that is empty or already holds an entry.                 *)
(***************************************************************************)
WaitObjs == TcpIds \cup {"u1"}

\* ::select finds descriptor h readable
Readable(F, h) ==
    /\ IsOpenFd(F, h)
    /\ F[h].rx # <<>> \/ F[h].fin = "arrived" \/ F[h].rst \/ F[h].backlog # <<>>

\* the largest element of a non-empty set of numbers
Maximum(S) == CHOOSE m \in S : \A x \in S : x <= m

\* the orders in which a loop over an unordered_set can visit the sockets S
Orders(S) ==
    {q \in [1..Cardinality(S) -> S] : \A i, j \in 1..Cardinality(S) : q[i] = q[j] => i = j}

\* the contents an output list can have when it is passed to waitForAny
ReadyLists == {<<>>, <<"u1">>}

\* the first argument of ::select: int( maxSocketFd )
SelectCount(maxSocketFd) == maxSocketFd

\* the descriptors among handles that ::select examines when it is told to
\* look at nfds descriptors: on POSIX those below nfds, on Windows, where the
\* argument is ignored, all of them
Examined(handles, nfds) ==
    IF platform = "posix" THEN {h \in handles : h < nfds} ELSE handles

\* waitForAny( activeSockets, readySockets, timeout ).  The bit of a
\* descriptor ::select does not examine is cleared or is left as FD_SET has
\* set it, depending on the word of the fd_set the descriptor falls in.
\* The function belongs to no object; its result is recorded for the thread
\* that drives t1.
WaitForAny(S, ready0) ==
    LET handles == {obj[o]._socket : o \in S}
        maxSocketFd == Maximum(handles \cup {0})
        nfds == SelectCount(maxSocketFd)
        examined == Examined(handles, nfds)
    IN
    /\ ~halted
    /\ budget # 0
    /\ \/ \* ::select reports an error
          /\ errno' = [errno EXCEPT !["main"] = EOTHER]
          /\ Return("t1", [Done("waitForAny", "false", <<Sys("select", nfds, FALSE)>>, TRUE)
                            EXCEPT !.set = S, !.vec = ready0, !.buf = ready0])
       \/ \E stale \in SUBSET (handles \ examined) :
          LET marked == {h \in examined : Readable(fds, h)} \cup stale
              ready == {o \in S : obj[o]._socket \in marked}
          IN
          /\ \E order \in Orders(ready) :
                Return("t1", [Done("waitForAny", "true", <<Sys("select", nfds, TRUE)>>, TRUE)
                               EXCEPT !.set = S, !.vec = ready0, !.buf = ready0 \o order])
          /\ UNCHANGED errno
    /\ UNCHANGED <<netVars, thrVars, life, obj, fds, driver, call, nsent, got, acked, halted>>

\* a byte from the peer reaches the receive queue of connection h
DataArrives(h) ==
    /\ fds[h].st = "conn"
    /\ fds[h].rx = <<>>
    /\ fds' = [fds EXCEPT ![h].rx = <<1>>]
    /\ UNCHANGED <<netVars, thrVars, life, obj, errno, driver, call, last, prev,
                   nsent, got, acked, halted, budget>>

WaitInit ==
    /\ platform \in Platforms
    /\ UtilIdle
    /\ _initialized = TRUE
    /\ succeeded = TRUE
    /\ ThreadInit
    /\ life = [o \in ObjIds |-> IF o \in WaitObjs THEN "alive" ELSE "none"]
    /\ \E hd \in [WaitObjs -> Fds] :
        /\ \A a, b \in WaitObjs : hd[a] = hd[b] => a = b
        /\ obj = [o \in ObjIds |-> IF o \in WaitObjs THEN SocketFrom(hd[o]) ELSE DefaultSocket]
        /\ fds = [f \in Fds |->
                    IF \E o \in TcpIds : hd[o] = f THEN [FreeFd EXCEPT !.st = "conn"]
                    ELSE IF \E o \in UdpIds : hd[o] = f THEN [FreeFd EXCEPT !.st = "udp"]
                    ELSE FreeFd]
    /\ errno = [t \in SockThreads |-> SUCCESS]
    /\ driver = [o \in ObjIds |-> "main"]
    /\ call = [o \in ObjIds |-> NoCall]
    /\ last = [t \in SockThreads |-> NoDone]
    /\ prev = [t \in SockThreads |-> Brief(NoDone)]
    /\ nsent = [o \in ObjIds |-> 0]
    /\ got = [o \in ObjIds |-> <<>>]
    /\ acked = [o \in ObjIds |-> 0]
    /\ halted = FALSE
    /\ budget = MaxCalls

WaitNext ==
    \/ \E S \in SUBSET WaitObjs, ready0 \in ReadyLists : WaitForAny(S, ready0)
    \/ \E h \in Fds : DataArrives(h)

WaitSpec == WaitInit /\ [][WaitNext]_vars

(***************************************************************************)
(* C23: for every set of sockets with distinct valid handles, a successful *)
(* waitForAny that was given an empty output list returns in it exactly    *)
(* the sockets of the set whose handles are readable, each once.  The code *)
(* does not satisfy this on POSIX: the count passed to ::select is the     *)
(* largest descriptor, not the largest plus one, so the socket with the    *)
(* largest descriptor is not examined.                                     *)
(***************************************************************************)
\* the elements of the sequence q
Elements(q) == {q[i] : i \in 1..Len(q)}

WaitReturnsReadable ==
    LET d == last'["main"] IN
    (budget' # budget /\ d.op = "waitForAny" /\ d.ret = "true" /\ d.vec = <<>>) =>
        /\ Elements(d.buf) = {o \in d.set : Readable(fds, obj[o]._socket)}
        /\ Len(d.buf) = Cardinality(Elements(d.buf))

C23_Original == [][WaitReturnsReadable]_vars
(***************************************************************************)
(* C24: waitForAny returns false exactly when ::select reports an error,   *)
(* and then the output list is as it was; when the timeout elapses with no *)
(* socket of the set readable it returns true and the output list is as it *)
(* was.  The code does not satisfy the second part on POSIX: the socket    *)
(* with the largest descriptor is not examined by ::select, and its bit    *)
(* can stay set.                                                           *)
(***************************************************************************)
WaitReturnsStatus ==
    LET d == last'["main"] IN
    (budget' # budget /\ d.op = "waitForAny") =>
        /\ d.ret \in {"true", "false"}
        /\ d.ret = "false" <=> HasSys(d, "select", FALSE)
        /\ d.ret = "false" => d.buf = d.vec
        /\ (d.ret = "true" /\ \A o \in d.set : ~Readable(fds, obj[o]._socket)) =>
              d.buf = d.vec

C24_Original == [][WaitReturnsStatus]_vars
(***************************************************************************)
(* C37: after waitForAny returns true the output list holds the sockets    *)
(* this call has found ready and nothing else, whatever the list held when *)
(* it was passed in.  The code does not satisfy this: it appends what it   *)
(* finds to the list and never clears it, so the entries the list held     *)
(* before the call are still in it.                                        *)
(***************************************************************************)
\* what a call that returned d has appended to the output list
Appended(d) == SubSeq(d.buf, Len(d.vec) + 1, Len(d.buf))

WaitReturnsOwnFindings ==
    LET d == last'["main"] IN
    (budget' # budget /\ d.op = "waitForAny" /\ d.ret = "true") =>
        /\ d.buf = Appended(d)
        /\ Elements(d.buf) \subseteq d.set

C37_Original == [][WaitReturnsOwnFindings]_vars
(***************************************************************************)
(* Endpoint utils: endpointToSockaddr and sockaddrToEndpoint.  An Endpoint *)
(* is converted to the native structure and back into an endpoint object   *)
(* that held something else; or the native structure comes from elsewhere  *)
(* and holds an address of another family.                                 *)
(***************************************************************************)
\* what no utility function changes
socketVars == <<platform, _initialized, succeeded, thrVars, sockVars>>

SampleV4 == {<<0, 0, 0, 0>>, <<127, 0, 0, 1>>, <<1, 2, 3, 4>>, <<255, 255, 255, 255>>}
SampleV6 == {[i \in 1..16 |-> IF i = 16 THEN 1 ELSE 0], [i \in 1..16 |-> i],
             [i \in 1..16 |-> 255]}
SamplePorts == {0, 1, 255, 256, 258, 4660, 65535}
Endpoints ==
    {[version |-> 4, bytes |-> b, port |-> q] : b \in SampleV4, q \in SamplePorts}
    \cup {[version |-> 6, bytes |-> b, port |-> q] : b \in SampleV6, q \in SamplePorts}
\* the families of the addresses the library has no class for
OtherFamilies == {"AF_UNSPEC", "AF_UNIX"}

AddrInit ==
    /\ platform \in Platforms
    /\ _initialized = FALSE
    /\ succeeded = FALSE
    /\ ThreadInit
    /\ SockInit
    /\ endpoint \in Endpoints
    /\ sockaddr = [family |-> "AF_UNSPEC", addr |-> <<>>, port |-> <<0, 0>>]
    /\ buffer = <<>>
    /\ ostream = [_curPos |-> 0]
    /\ istream = [_curPos |-> 0, _failed |-> FALSE]
    /\ result = NoResult

\* endpointToSockaddr( endpoint, &sockaddr, addrlen )
ToSockaddr ==
    /\ result.op = "none"
    /\ sockaddr' = endpointToSockaddr(endpoint)
    /\ result' = [op |-> "endpointToSockaddr", ok |-> TRUE, from |-> endpoint,
                  before |-> endpoint,
                  addrlen |-> IF endpoint.version = 4 THEN 16 ELSE 28]
    /\ UNCHANGED <<socketVars, endpoint, buffer, ostream, istream>>

\* the native structure was filled in by a native call with an address of
\* another family
ForeignSockaddr ==
    /\ result.op = "none"
    /\ \E f \in OtherFamilies, a \in SampleV4 :
          sockaddr' = [family |-> f, addr |-> a, port |-> <<0, 0>>]
    /\ result' = [op |-> "native", ok |-> TRUE, from |-> endpoint, before |-> endpoint,
                  addrlen |-> 0]
    /\ UNCHANGED <<socketVars, endpoint, buffer, ostream, istream>>

\* sockaddrToEndpoint( &sockaddr, ep ) into an endpoint object holding ep0
ToEndpoint ==
    /\ result.op \in {"endpointToSockaddr", "native"}
    /\ \E ep0 \in {[version |-> 4, bytes |-> <<9, 9, 9, 9>>, port |-> 9],
                   [version |-> 0, bytes |-> <<>>, port |-> 0]} :
        LET r == sockaddrToEndpoint(sockaddr, ep0) IN
        /\ endpoint' = r.ep
        /\ result' = [op |-> "sockaddrToEndpoint", ok |-> r.ok, from |-> result.from,
                      before |-> ep0, addrlen |-> result.addrlen]
    /\ UNCHANGED <<socketVars, sockaddr, buffer, ostream, istream>>

AddrNext == ToSockaddr \/ ForeignSockaddr \/ ToEndpoint

AddrSpec == AddrInit /\ [][AddrNext]_vars

(***************************************************************************)
(* C26: for every Endpoint holding an IPv4 or IPv6 address,                *)
(* endpointToSockaddr followed by sockaddrToEndpoint yields the same       *)
(* version, address bytes and port, and the native structure holds the     *)
(* port high byte first.  sockaddrToEndpoint reports failure for every     *)
(* other address family and leaves the output endpoint as it was.          *)
(***************************************************************************)
C26_EndpointRoundTrip ==
    /\ result.op = "endpointToSockaddr" =>
          /\ sockaddr.family = (IF endpoint.version = 4 THEN "AF_INET" ELSE "AF_INET6")
          /\ sockaddr.addr = endpoint.bytes
          /\ sockaddr.port[1] * 256 + sockaddr.port[2] = endpoint.port
          /\ sockaddr.port[1] \in Bytes /\ sockaddr.port[2] \in Bytes
    /\ result.op = "sockaddrToEndpoint" =>
          /\ result.ok <=> sockaddr.family \in {"AF_INET", "AF_INET6"}
          /\ result.ok => endpoint = result.from
          /\ ~result.ok => endpoint = result.before

\* an IPv6 endpoint whose port has two different bytes has come back from
\* the native structure into an object that held something else
C26_Witness ==
    /\ result.op = "sockaddrToEndpoint"
    /\ result.ok
    /\ endpoint.version = 6
    /\ endpoint.port = 258
    /\ endpoint.bytes[3] = 3
    /\ result.before # endpoint

(***************************************************************************)
(* Two UdpSockets on the loopback interface: each may be opened on a port  *)
(* of its own or unbound, send to a port, and receive.                     *)
(***************************************************************************)
UdpPorts == {0, 1, 258}

UdpInit ==
    /\ platform \in Platforms
    /\ UtilIdle
    /\ _initialized = TRUE
    /\ succeeded = TRUE
    /\ ThreadInit
    /\ SockInit

UdpNext ==
    \E o \in UdpIds :
        \/ \E port \in UdpPorts : UdpOpen(o, port)
        \/ \E port \in UdpPorts \ {0}, len \in 1..MaxLen :
              UdpSendTo(o, LoopbackEndpoint(port), len)
        \/ \E n \in 1..MaxLen : UdpRecvFrom(o, n)

UdpSpec == UdpInit /\ [][UdpNext]_vars

\* the datagram a recvFrom took from the queue fitted into the buffer
Fitted(d) == Len(d.dgram.data) <= d.n

\* recvFrom has handed over the whole of the datagram it took, and the
\* address the sender was bound to
WholeDatagram(d) ==
    /\ d.buf = d.dgram.data
    /\ d.received = Len(d.dgram.data)
    /\ d.endpoint = [version |-> 4, bytes |-> <<127, 0, 0, 1>>, port |-> d.dgram.bound]

\* every datagram waiting in a socket is what a sendTo addressed to the
\* port of that socket was given
QueuedAsSent ==
    \A f \in Fds : \A i \in 1..Len(fds[f].rx) :
        fds[f].st = "udp" =>
            /\ fds[f].rx[i].to = [version |-> 4, bytes |-> <<127, 0, 0, 1>>,
                                  port |-> fds[f].port]
            /\ fds[f].rx[i].data = Payload(Len(fds[f].rx[i].data))
            /\ fds[f].rx[i].bound # 0

(***************************************************************************)
(* C25: a datagram passed to sendTo and addressed to a bound UdpSocket is  *)
(* returned by that socket's recvFrom with the same bytes, outReceived     *)
(* equal to its length and outEndpoint equal to the address and port the   *)
(* sender is bound to, provided the buffer given to recvFrom is at least   *)
(* as long as the datagram.  Into a shorter buffer recvFrom puts the first *)
(* bytes that fit and reports their number, or fails with Other on         *)
(* Windows.                                                                *)
(***************************************************************************)
C25_Datagram ==
    /\ QueuedAsSent
    /\ LET d == last["main"] IN
       (d.op = "recvFrom" /\ d.dgram # NoDatagram) =>
          IF Fitted(d)
          THEN d.ret = "Success" /\ WholeDatagram(d)
          ELSE IF platform = "win"
          THEN d.ret = "Other"
          ELSE /\ d.ret = "Success"
               /\ d.received = d.n
               /\ d.buf = SubSeq(d.dgram.data, 1, d.n)
               /\ d.endpoint.port = d.dgram.bound

\* C25 as the specification states it, for every buffer given to recvFrom
C25_Original ==
    LET d == last["main"] IN
    (d.op = "recvFrom" /\ d.ret = "Success") => WholeDatagram(d)

\* a socket opened unbound has sent two bytes to a bound socket, which has
\* received them into a buffer of two bytes
C25_Witness ==
    /\ last["main"].op = "recvFrom"
    /\ last["main"].ret = "Success"
    /\ last["main"].n = 2
    /\ last["main"].buf = <<1, 2>>
    /\ last["main"].endpoint.port = 49152
    /\ last["main"].obj = "u1"

(***************************************************************************)
(* BinaryOutputStream and BinaryInputStream over one buffer of BufLen      *)
(* bytes.  A cursor is the offset of _curPos from the start of the buffer, *)
(* and _endPos is its length.  Integers are uint8_t and uint16_t.       *)
(***************************************************************************)
IntSizes == {1, 2}

RECURSIVE Pow256(_)
Pow256(n) == IF n = 0 THEN 1 ELSE 256 * Pow256(n - 1)

IntValues(size) ==
    {1, 772 % Pow256(size), Pow256(size) - 1}

InitialBuffers == {[i \in 1..BufLen |-> 0], [i \in 1..BufLen |-> i]}

\* the mutant: the least significant byte is stored first
StoreLowFirst(mem, pos, native) ==
    [i \in 1..Len(mem) |-> (native \div Pow256(i - 1)) % 256]

\* the loop of _writeIntBE: bigEndian[ --pos ] = native & 0xFF; native >>= 8
RECURSIVE StoreBE(_, _, _)
StoreBE(mem, pos, native) ==
    IF pos = 0 THEN mem
    ELSE StoreBE([mem EXCEPT ![pos] = native % 256], pos - 1, native \div 256)

\* the bytes _writeIntBE stores at the cursor
_writeIntBE(size, native) == StoreBE([i \in 1..size |-> 0], size, native)

\* the loop of readIntBE: native = native << 8 | bigEndian[ pos++ ]
RECURSIVE LoadBE(_, _, _)
LoadBE(mem, pos, native) ==
    IF pos > Len(mem) THEN native
    ELSE LoadBE(mem, pos + 1, ((native * 256) % Pow256(Len(mem))) + mem[pos])

\* the loop of readIntLE: native = native << 8 | littleEndian[ --pos ]
RECURSIVE LoadLE(_, _, _)
LoadLE(mem, pos, native) ==
    IF pos = 0 THEN native
    ELSE LoadLE(mem, pos - 1, ((native * 256) % Pow256(Len(mem))) + mem[pos])

\* the buffer after bytes were stored at offset at
StoreAt(buf, at, bytes) ==
    [i \in 1..Len(buf) |-> IF i > at /\ i <= at + Len(bytes) THEN bytes[i - at] ELSE buf[i]]

\* the size bytes at the input cursor
AtCursor(size) == SubSeq(buffer, istream._curPos + 1, istream._curPos + size)

\* canRead( size ): the error flag after it
canRead(size) == istream._failed \/ istream._curPos + size > Len(buffer)

NoWrite == [op |-> "none", at |-> 0, size |-> 0, value |-> 0]

\* the record of a call on a stream: the value it returned or put out, the
\* input cursor and error flag it found, and the last integer written
Called(op, ok, value, out, size) ==
    [op |-> op, ok |-> ok, value |-> value, out |-> out, size |-> size,
     at |-> istream._curPos, failed |-> istream._failed, wrote |-> result.wrote]

BinInit ==
    /\ platform = "posix"
    /\ _initialized = FALSE
    /\ succeeded = FALSE
    /\ ThreadInit
    /\ SockInit
    /\ endpoint = NoEndpoint
    /\ sockaddr = [family |-> "AF_UNSPEC", addr |-> <<>>, port |-> <<0, 0>>]
    /\ buffer \in InitialBuffers
    /\ ostream = [_curPos |-> 0]
    /\ istream = [_curPos |-> 0, _failed |-> FALSE]
    /\ result = [op |-> "none", ok |-> TRUE, value |-> 0, out |-> <<>>, size |-> 0,
                 at |-> 0, failed |-> FALSE, wrote |-> NoWrite]

\* a write of an integer that fits into the rest of the buffer, by the
\* function the method calls
Written(op, size, native, bytes) ==
    /\ ostream._curPos + size <= Len(buffer)
    /\ buffer' = StoreAt(buffer, ostream._curPos, bytes)
    /\ ostream' = [ostream EXCEPT !._curPos = @ + size]
    /\ result' = [Called(op, TRUE, native, <<>>, size) EXCEPT
                    !.wrote = [op |-> op, at |-> ostream._curPos, size |-> size,
                               value |-> native]]
    /\ UNCHANGED <<socketVars, endpoint, sockaddr, istream>>

\* BinaryOutputStream::writeIntBE
WriteIntBE ==
    \E size \in IntSizes : \E native \in IntValues(size) :
        Written("writeIntBE", size, native, _writeIntBE(size, native))

\* BinaryOutputStream::writeIntLE, which calls _writeIntBE
WriteIntLE ==
    \E size \in IntSizes : \E native \in IntValues(size) :
        Written("writeIntLE", size, native, _writeIntBE(size, native))

\* a read of size bytes guarded by canRead: what it returns when it may
\* read, and the defaults when it may not
Read(op, size, value, out) ==
    /\ istream' = [_curPos |-> IF canRead(size) THEN istream._curPos
                               ELSE istream._curPos + size,
                   _failed |-> canRead(size)]
    /\ result' = IF canRead(size) THEN Called(op, FALSE, 0, <<>>, size)
                 ELSE Called(op, TRUE, value, out, size)
    /\ UNCHANGED <<socketVars, endpoint, sockaddr, buffer, ostream>>

\* BinaryInputStream::get
Get == Read("get", 1, LoadBE(AtCursor(1), 1, 0), <<>>)

\* BinaryInputStream::readIntBE and readIntLE
ReadIntBE == \E size \in IntSizes : Read("readIntBE", size, LoadBE(AtCursor(size), 1, 0), <<>>)
ReadIntLE == \E size \in IntSizes : Read("readIntLE", size, LoadLE(AtCursor(size), size, 0), <<>>)

\* BinaryInputStream::readBytes, readString( str, size ) and skip
ReadBytes == \E size \in 1..(BufLen + 1) : Read("readBytes", size, 0, AtCursor(size))
ReadString == \E size \in 1..(BufLen + 1) : Read("readString", size, 0, AtCursor(size))
Skip == \E size \in 1..(BufLen + 1) : Read("skip", size, 0, <<>>)

\* the offsets of the zero bytes from the input cursor on
Terminators == {i \in (istream._curPos + 1)..Len(buffer) : buffer[i] = 0}

\* BinaryInputStream::readString0
ReadString0 ==
    /\ IF istream._failed \/ Terminators = {}
       THEN /\ istream' = [istream EXCEPT !._failed = TRUE]
            /\ result' = Called("readString0", FALSE, 0, <<>>, 0)
       ELSE LET strEndPos == CHOOSE i \in Terminators : \A j \in Terminators : i <= j
                size == strEndPos - 1 - istream._curPos IN
            /\ istream' = [istream EXCEPT !._curPos = @ + size + 1]
            /\ result' = Called("readString0", TRUE, 0, AtCursor(size), size)
    /\ UNCHANGED <<socketVars, endpoint, sockaddr, buffer, ostream>>

\* BinaryInputStream::readRemaining
ReadRemaining ==
    LET size == Len(buffer) - istream._curPos IN
    /\ istream' = [istream EXCEPT !._curPos = @ + size]
    /\ result' = Called("readRemaining", TRUE, 0, AtCursor(size), size)
    /\ UNCHANGED <<socketVars, endpoint, sockaddr, buffer, ostream>>

\* BinaryInputStream::resetFailed
ResetFailed ==
    /\ istream' = [istream EXCEPT !._failed = FALSE]
    /\ result' = Called("resetFailed", TRUE, 0, <<>>, 0)
    /\ UNCHANGED <<socketVars, endpoint, sockaddr, buffer, ostream>>

BinNext ==
    \/ WriteIntBE \/ WriteIntLE
    \/ Get \/ ReadIntBE \/ ReadIntLE
    \/ ReadBytes \/ ReadString \/ ReadString0 \/ ReadRemaining \/ Skip
    \/ ResetFailed

BinSpec == BinInit /\ [][BinNext]_vars

ReadOps == {"get", "readIntBE", "readIntLE", "readBytes", "readString", "readString0",
            "readRemaining", "skip"}

\* the read called in this step asks for more bytes than are left
PastTheEnd == result'.op \in ReadOps \ {"readString0", "readRemaining"}
              /\ istream._curPos + result'.size > Len(buffer)

\* C27 as the specification states it: a read past the end sets the error
\* flag, the flag stays set until resetFailed is called, and while it is set
\* every read returns defaults, reports failure and leaves the cursor where
\* it is
C27_Original ==
    [][ /\ PastTheEnd => istream'._failed
        /\ (istream._failed /\ result'.op # "resetFailed") => istream'._failed
        /\ (istream._failed /\ result'.op \in ReadOps) =>
              /\ istream'._curPos = istream._curPos
              /\ ~result'.ok
              /\ result'.value = 0 /\ result'.out = <<>> ]_vars

\* the last integer written, by the method op, lies where this read began
\* and has its size
ReadsWhatWasWritten(op) ==
    /\ result.wrote.op = op
    /\ result.wrote.at = result.at
    /\ result.wrote.size = result.size

\* C28 as the specification states it: writeIntLE stores the least
\* significant byte first, so that readIntLE returns the value written
C28_Original ==
    /\ result.op = "writeIntLE" =>
          \A k \in 1..result.size :
              buffer[result.wrote.at + k] = (result.value \div Pow256(k - 1)) % 256
    /\ (result.op = "readIntLE" /\ result.ok /\ ReadsWhatWasWritten("writeIntLE")) =>
          result.value = result.wrote.value

(***************************************************************************)
(* C29: writeIntBE stores the most significant byte first and advances the *)
(* output cursor by the size of the integer; readIntBE of the same size at *)
(* the same place returns the value written and advances the input cursor  *)
(* by the same amount.                                                     *)
(***************************************************************************)
C29_BigEndian ==
    /\ result.op = "writeIntBE" =>
          /\ \A k \in 1..result.size :
                buffer[result.wrote.at + k]
                    = (result.value \div Pow256(result.size - k)) % 256
          /\ ostream._curPos = result.wrote.at + result.size
    /\ (result.op = "readIntBE" /\ result.ok) =>
          /\ istream._curPos = result.at + result.size
          /\ ReadsWhatWasWritten("writeIntBE") => result.value = result.wrote.value

\* a 16-bit integer with two different bytes, written behind another byte,
\* has been read back
C29_Witness ==
    /\ result.op = "readIntBE"
    /\ result.ok
    /\ ReadsWhatWasWritten("writeIntBE")
    /\ result.size = 2
    /\ result.at = 1
    /\ result.value = 772

(***************************************************************************)
(* The connected pair with a sender whose native sends return: the loop of *)
(* send takes its next turn whenever ::send would return, and the network  *)
(* keeps delivering.                                                       *)
(***************************************************************************)
SendNext ==
    \/ SenderCalls
    \/ \E enable \in BOOLEAN : SetBlockingMode(Sender, enable)
    \/ StreamNetwork

SendSpec ==
    /\ StreamInit
    /\ [][SendNext]_vars
    /\ WF_vars(TcpSendStep(Sender))
    /\ WF_vars(DeliverSome)

\* the bytes of q are consecutive bytes of the application's stream
InOrder(q) == \A i \in 1..(Len(q) - 1) : q[i + 1] = q[i] + 1

\* while send is in its loop: the cursor and the remaining size add up to
\* the end of the buffer, something remains, what the kernel was handed is
\* the buffer up to the cursor, and every native call so far took a byte
SendLoopInvariant ==
    LET c == call[Sender] IN
    c.op = "send" =>
        /\ c.begin + c.rem = c.n
        /\ c.rem > 0
        /\ c.taken = SubSeq(c.buf, 1, c.begin)
        /\ Len(c.sys) <= c.begin

\* a send that has returned handed the kernel a prefix of its buffer, all
\* of it if it returned Success, in no more native calls than bytes plus
\* the failed one
SendReturned ==
    LET d == last["peer"] IN
    (d.op = "send" /\ d.sys # <<>>) =>
        /\ InOrder(d.buf)
        /\ Len(d.buf) <= d.n
        /\ d.ret = "Success" <=> Len(d.buf) = d.n
        /\ d.ret = "Success" <=> d.sys[Len(d.sys)].ok
        /\ Len(d.sys) <= Len(d.buf) + (IF d.ret = "Success" THEN 0 ELSE 1)

\* one turn of the loop hands the kernel the bytes at the cursor, at least
\* one and no more than remain
SendTurn ==
    LET c == call[Sender] IN
    (c.op = "send" /\ call'[Sender] # c) =>
        LET taken == IF call'[Sender].op = "send" THEN call'[Sender].taken
                     ELSE last'["peer"].buf
            k == Len(taken) - Len(c.taken) IN
        /\ k <= c.rem
        /\ taken = c.taken \o SubSeq(c.buf, c.begin + 1, c.begin + k)
        /\ k = 0 <=> (call'[Sender].op # "send" /\ last'["peer"].ret = "SendFailed")

(***************************************************************************)
(* C30: while send runs, the bytes handed to the kernel are a prefix of    *)
(* the buffer in order, the cursor plus the remaining size is the end of   *)
(* the buffer, no byte is offered twice or skipped, no native call is      *)
(* given more than remains, and the loop ends when every native send       *)
(* returns with an error or with between 1 and the remaining number of     *)
(* bytes accepted.                                                         *)
(***************************************************************************)
C30_SendLoop ==
    /\ [](SendLoopInvariant /\ SendReturned)
    /\ [][SendTurn]_vars
    /\ (call[Sender].op = "send") ~> (call[Sender].op # "send" \/ halted)

\* a send of two bytes has returned Success after two native calls
C30_Witness ==
    /\ last["peer"].op = "send"
    /\ last["peer"].ret = "Success"
    /\ last["peer"].n = 2
    /\ Len(last["peer"].sys) = 2
    /\ last["peer"].buf = <<1, 2>>

\* the receive call of the receiver returns in this step
ReceiveReturns == call[Receiver].op = "receive" /\ call'[Receiver].op # "receive"

\* what a returning receive reports: the count is the number of bytes at the
\* front of the buffer, they continue the stream behind what earlier calls
\* returned, the rest of the buffer is as the caller passed it, the count is
\* the buffer size exactly on Success, and the next byte the kernel holds
\* is the one that follows
ReceiveCounts ==
    ReceiveReturns =>
        LET d == last'["main"]
            before == Len(got[Receiver]) IN
        /\ d.op = "receive"
        /\ d.received \in 0..d.n
        /\ SubSeq(d.buf, 1, d.received) = [k \in 1..d.received |-> before + k]
        /\ \A k \in (d.received + 1)..d.n : d.buf[k] = 0
        /\ d.received = d.n <=> d.ret = "Success"
        /\ (IsOpenFd(fds', ReceiverFd) /\ fds'[ReceiverFd].rx # <<>>) =>
              Head(fds'[ReceiverFd].rx) = before + d.received + 1

(***************************************************************************)
(* C31: whenever receive( buffer, outReceived ) returns on a connected     *)
(* socket, outReceived is the number of bytes the call copied into the     *)
(* front of the buffer, those bytes are the next bytes of the stream in    *)
(* order, outReceived equals the buffer size exactly when the result is    *)
(* Success, and the bytes consumed before a WouldBlock, Timeout or         *)
(* ConnectionClosed result are not lost.                                   *)
(***************************************************************************)
C31_ReceiveCount == [][ReceiveCounts]_vars

\* a receive of two bytes has returned WouldBlock or Timeout with the one
\* byte that had arrived
C31_Witness ==
    /\ last["main"].op = "receive"
    /\ last["main"].ret \in {"WouldBlock", "Timeout"}
    /\ last["main"].n = 2
    /\ last["main"].received = 1
    /\ last["main"].buf = <<1, 0>>
    /\ got[Receiver] = <<1>>

\* a receive or receiveOnce returns WouldBlock or Timeout in this step: the
\* object keeps its handle and its blocking flag and is still connected,
\* the descriptor is as it was, and no other object has changed
TransientReturns ==
    LET d == last'["main"] IN
    ( /\ budget' # budget
      /\ d.op \in {"receive", "receiveOnce"}
      /\ d.ret \in {"WouldBlock", "Timeout"} )
    => /\ obj[d.obj]._socket # INVALID_SOCK
       /\ obj'[d.obj]._socket = obj[d.obj]._socket
       /\ obj'[d.obj]._isBlocking = obj[d.obj]._isBlocking
       /\ fds' = fds
       /\ IsOpenFd(fds', obj'[d.obj]._socket)
       /\ \A y \in ObjIds \ {d.obj} : obj'[y] = obj[y]

(***************************************************************************)
(* C32: a receive or receiveOnce that returns WouldBlock or Timeout leaves *)
(* the TcpSocket connected, with the same native handle and the same       *)
(* blocking flag, so that the caller can call receive again.               *)
(***************************************************************************)
C32_TransientKeepsSocket == [][TransientReturns]_vars

\* a receiveOnce has returned Timeout on a connected socket
C32_Witness ==
    /\ last["main"].op = "receiveOnce"
    /\ last["main"].ret = "Timeout"
    /\ isConnected(last["main"].obj)

\* C33 as the specification states it: the cached blocking flag of every
\* socket object that holds a valid handle equals the blocking mode of the
\* descriptor it owns
C33_Original ==
    \A o \in ObjIds :
        (life[o] = "alive" /\ IsOpenFd(fds, obj[o]._socket)) =>
            (obj[o]._isBlocking <=> ~fds[obj[o]._socket].nonblock)

\* a move assignment returns in this step: the descriptor its destination
\* held before is closed, or is held by a live object
MoveKeepsOwner ==
    LET d == last'["main"]
        h == obj[d.obj]._socket IN
    (budget' # budget /\ d.op = "move" /\ life[d.obj] = "alive" /\ IsOpenFd(fds, h)) =>
        \/ ~IsOpenFd(fds', h)
        \/ \E o \in ObjIds : life'[o] = "alive" /\ obj'[o]._socket = h

\* C34 as the specification states it: move-assigning into a socket object
\* that owns a valid handle, the object itself included, does not leak the
\* handle the destination owned
C34_Original == [][MoveKeepsOwner]_vars

\* the places of the native close calls among the native calls of call d
Closes(d) == {k \in 1..Len(d.sys) : d.sys[k].name = "close"}

\* a call returns in this step: each native close it issued was given a
\* descriptor that was open, held by the object or created by this call,
\* was not given it twice, and no live object holds it afterwards
ClosesOwnedOnce ==
    LET d == last'["main"] IN
    budget' # budget =>
        \A k \in Closes(d) :
            LET h == d.sys[k].h IN
            /\ h # INVALID_SOCK
            /\ h \in Fds
            /\ \/ IsOpenFd(fds, h) /\ obj[d.obj]._socket = h
               \/ h \in d.fresh /\ fds[h].st = "free"
            /\ \A j \in Closes(d) : d.sys[j].h = h => j = k
            /\ ~IsOpenFd(fds', h)
            /\ \A o \in ObjIds : life'[o] = "alive" => obj'[o]._socket # h

Race == call[Receiver]

\* the values a read of _socket can yield to a thread that has read seen
Reads(seen) == {obj[Receiver]._socket, seen}

\* the native close of h by thread t: the call, and the descriptors after
CloseCall(h, t) == [h |-> h, ok |-> IsOpenFd(fds, h), by |-> t]
AfterClose(h) == IF IsOpenFd(fds, h) THEN KClose(fds, h) ELSE fds

RaceFrame == UNCHANGED <<netVars, thrVars, life, errno, driver, last, prev, nsent, got,
                         acked, budget>>

\* TcpSocket::receive: the check on entry
RaceReceive ==
    /\ ~halted /\ Race = NoCall /\ isConnected(Receiver)
    /\ call' = [call EXCEPT ![Receiver] =
                  [op |-> "race", recv |-> "recv", disc |-> "idle",
                   rh |-> obj[Receiver]._socket, dh |-> INVALID_SOCK,
                   shut |-> {}, closes |-> <<>>, rret |-> "none", dret |-> "none"]]
    /\ UNCHANGED <<obj, fds, halted>>
    /\ RaceFrame

\* ::recv in the loop of receive, with nothing to read: it fails on a
\* descriptor that is not open, returns 0 once the descriptor was shut down,
\* and otherwise fails or keeps waiting as the mode of the descriptor says
RaceRecv ==
    /\ ~halted /\ Race.op = "race" /\ Race.recv = "recv"
    /\ \E h \in Reads(Race.rh) :
          IF ~IsOpenFd(fds, h)
          THEN call' = [call EXCEPT ![Receiver].recv = "done", ![Receiver].rret = "Other"]
          ELSE IF h \in Race.shut
          THEN call' = [call EXCEPT ![Receiver].recv = "close", ![Receiver].rh = h]
          ELSE /\ NoDataErrno(fds, h) # 0
               /\ call' = [call EXCEPT ![Receiver].recv = "done",
                                       ![Receiver].rret = RecvError(Receiver, NoDataErrno(fds, h))]
    /\ UNCHANGED <<obj, fds, halted>>
    /\ RaceFrame

\* _closeSocket( _socket ) after ::recv returned 0; its result is not looked at
RaceRecvClose ==
    /\ ~halted /\ Race.op = "race" /\ Race.recv = "close"
    /\ \E h \in Reads(Race.rh) :
          /\ fds' = AfterClose(h)
          /\ call' = [call EXCEPT ![Receiver].recv = "clear",
                                  ![Receiver].closes = Append(@, CloseCall(h, "receive"))]
    /\ UNCHANGED <<obj, halted>>
    /\ RaceFrame

\* _socket = INVALID_SOCK; return SocketError::ConnectionClosed
RaceRecvClear ==
    /\ ~halted /\ Race.op = "race" /\ Race.recv = "clear"
    /\ obj' = [obj EXCEPT ![Receiver]._socket = INVALID_SOCK]
    /\ call' = [call EXCEPT ![Receiver].recv = "done",
                            ![Receiver].rret = "ConnectionClosed"]
    /\ UNCHANGED <<fds, halted>>
    /\ RaceFrame

\* TcpSocket::disconnect called by the second thread while the first is
\* inside receive: the check on entry
RaceDisconnect ==
    /\ ~halted /\ Race.op = "race" /\ Race.disc = "idle" /\ Race.recv # "done"
    /\ IF isConnected(Receiver)
       THEN call' = [call EXCEPT ![Receiver].disc = "shutdown",
                                 ![Receiver].dh = obj[Receiver]._socket]
       ELSE call' = [call EXCEPT ![Receiver].disc = "done",
                                 ![Receiver].dret = "NotConnected"]
    /\ UNCHANGED <<obj, fds, halted>>
    /\ RaceFrame

\* _shutdownSocket( _socket ), and critical_error when it fails
RaceShutdown ==
    /\ ~halted /\ Race.op = "race" /\ Race.disc = "shutdown"
    /\ \E h \in Reads(Race.dh) :
          IF CanShutdown(fds, h)
          THEN /\ fds' = KShutdown(fds, h)
               /\ call' = [call EXCEPT ![Receiver].disc = "close",
                                       ![Receiver].dh = h,
                                       ![Receiver].shut = @ \cup {h}]
               /\ UNCHANGED halted
          ELSE /\ halted' = TRUE
               /\ call' = [call EXCEPT ![Receiver].disc = "done",
                                       ![Receiver].dret = "Halted"]
               /\ UNCHANGED fds
    /\ UNCHANGED obj
    /\ RaceFrame

\* _closeSocket( _socket ) in disconnect, and critical_error when it fails
RaceClose ==
    /\ ~halted /\ Race.op = "race" /\ Race.disc = "close"
    /\ \E h \in Reads(Race.dh) :
          /\ fds' = AfterClose(h)
          /\ halted' = ~IsOpenFd(fds, h)
          /\ call' = [call EXCEPT
                        ![Receiver].disc = IF IsOpenFd(fds, h) THEN "clear" ELSE "done",
                        ![Receiver].dret = IF IsOpenFd(fds, h) THEN "none" ELSE "Halted",
                        ![Receiver].closes = Append(@, CloseCall(h, "disconnect"))]
    /\ UNCHANGED obj
    /\ RaceFrame

\* _lastSystemError = getLastError(); _socket = INVALID_SOCK; return Success
RaceClear ==
    /\ ~halted /\ Race.op = "race" /\ Race.disc = "clear"
    /\ obj' = [obj EXCEPT ![Receiver] =
                  [@ EXCEPT !._lastSystemError = errno["peer"], !._socket = INVALID_SOCK]]
    /\ call' = [call EXCEPT ![Receiver].disc = "done", ![Receiver].dret = "Success"]
    /\ UNCHANGED <<fds, halted>>
    /\ RaceFrame

RaceNext ==
    \/ RaceReceive \/ RaceRecv \/ RaceRecvClose \/ RaceRecvClear
    \/ RaceDisconnect \/ RaceShutdown \/ RaceClose \/ RaceClear

RaceSpec == StreamInit /\ [][RaceNext]_vars

\* C36 as the specification states it: when disconnect is called while
\* another thread is inside receive on the same TcpSocket, the native close
\* is issued at most once for the handle, never for the invalid handle, and
\* the process is not stopped by a failing shutdown or close
C36_Original ==
    /\ ~halted
    /\ Race.op = "race" =>
          \A k \in 1..Len(Race.closes) :
              /\ Race.closes[k].h # INVALID_SOCK
              /\ Race.closes[k].ok
              /\ \A j \in 1..Len(Race.closes) : Race.closes[j].h = Race.closes[k].h => j = k

(***************************************************************************)
(* Value utilities: enumString and the comparison operators of the         *)
(* addresses.  enumString is called with any value the underlying type of  *)
(* SocketError can hold; two addresses of AddrSize bytes are compared.     *)
(***************************************************************************)
\* enum class SocketError: the enumerators and their values
SocketError ==
    [Success |-> 0, AlreadyConnected |-> 1, NotConnected |-> 2,
     NetworkingInitFailed |-> 10, HostNotResolved |-> 11, ConnectFailed |-> 12,
     SendFailed |-> 20, ConnectionClosed |-> 30, Timeout |-> 31, WouldBlock |-> 32,
     AlreadyOpen |-> 40, NotOpen |-> 41, BindFailed |-> 42, ListenFailed |-> 43,
     Other |-> 255]

\* the enumerators, by name
Enumerators == DOMAIN SocketError

\* the values a SocketError can hold
ErrorValues == 0..255

\* enumString( error ): the switch over the enumerators and its default
enumString(error) ==
    CASE error = SocketError.Success              -> "Success"
      [] error = SocketError.AlreadyConnected     -> "AlreadyConnected"
      [] error = SocketError.NotConnected         -> "NotConnected"
      [] error = SocketError.NetworkingInitFailed -> "NetworkingInitFailed"
      [] error = SocketError.HostNotResolved      -> "HostNotResolved"
      [] error = SocketError.ConnectFailed        -> "ConnectFailed"
      [] error = SocketError.SendFailed           -> "SendFailed"
      [] error = SocketError.ConnectionClosed     -> "ConnectionClosed"
      [] error = SocketError.Timeout              -> "Timeout"
      [] error = SocketError.WouldBlock           -> "WouldBlock"
      [] error = SocketError.AlreadyOpen          -> "AlreadyOpen"
      [] error = SocketError.BindFailed           -> "BindFailed"
      [] error = SocketError.ListenFailed         -> "ListenFailed"
      [] OTHER                                    -> "Other"

\* the length of the addresses compared
AddrSize == 2

\* the values the bytes of the addresses compared are taken from
AddrBytes == {0, 1, 255}

\* the addresses compared
Addrs == [1..AddrSize -> AddrBytes]

\* std::lexicographical_compare( a1, a1 + size, a2, a2 + size ), from the
\* i-th element on: the first pair of elements that differ decides, and two
\* ranges of the same length that do not differ are not in order
RECURSIVE lexicographical_compare(_, _, _, _)
lexicographical_compare(a1, a2, size, i) ==
    IF i > size THEN FALSE
    ELSE IF a1[i] < a2[i] THEN TRUE
    ELSE IF a2[i] < a1[i] THEN FALSE
    ELSE lexicographical_compare(a1, a2, size, i + 1)

\* genericCompare( a1, a2, size ): the bool of the algorithm, as an int
genericCompare(a1, a2, size) ==
    IF lexicographical_compare(a1, a2, size, 1) THEN 1 ELSE 0

\* GenericAddr< Size >::operator==, operator< and operator>
operatorEq(a, b) == genericCompare(a, b, Len(a)) = 0
operatorLt(a, b) == genericCompare(a, b, Len(a)) < 0
operatorGt(a, b) == genericCompare(a, b, Len(a)) > 0

ValueInit ==
    /\ platform = "posix"
    /\ _initialized = FALSE
    /\ succeeded = FALSE
    /\ ThreadInit
    /\ SockInit
    /\ UtilIdle

\* a call of enumString
EnumString(error) ==
    /\ result' = [op |-> "enumString", error |-> error, text |-> enumString(error)]
    /\ UNCHANGED <<socketVars, endpoint, sockaddr, buffer, ostream, istream>>

\* the three comparisons of the addresses a and b
Compare(a, b) ==
    /\ result' = [op |-> "compare", a |-> a, b |-> b, eq |-> operatorEq(a, b),
                  lt |-> operatorLt(a, b), gt |-> operatorGt(a, b)]
    /\ UNCHANGED <<socketVars, endpoint, sockaddr, buffer, ostream, istream>>

ValueNext ==
    \/ \E error \in ErrorValues : EnumString(error)
    \/ \E a, b \in Addrs : Compare(a, b)

ValueSpec == ValueInit /\ [][ValueNext]_vars

\* C38 as the specification states it: enumString gives for every
\* enumerator of SocketError the text of the enumerator's own name, so
\* different enumerators have different texts and only Other gives "Other"
C38_Original ==
    \A e \in Enumerators :
        (result.op = "enumString" /\ result.error = SocketError[e]) =>
            /\ result.text = e
            /\ result.text = "Other" => e = "Other"
            /\ \A f \in Enumerators : enumString(SocketError[f]) = result.text => f = e

\* a precedes b in the lexicographic order of the bytes
Precedes(a, b) ==
    \E i \in 1..Len(a) : a[i] < b[i] /\ \A j \in 1..(i - 1) : a[j] = b[j]

\* C39 as the specification states it: on two addresses of the same size
\* == holds exactly when all bytes are equal, exactly one of <, == and >
\* holds, and < holds exactly when the left address precedes the right one
\* in the lexicographic order of the bytes
C39_Original ==
    result.op = "compare" =>
        LET a == result.a
            b == result.b
        IN
        /\ result.eq <=> a = b
        /\ result.lt <=> Precedes(a, b)
        /\ result.gt <=> Precedes(b, a)
        /\ Cardinality({x \in {"lt", "eq", "gt"} : result[x]}) = 1
====
